---------------------------- MODULE Spec2Model ----------------------------
(***************************************************************************)
(* A model of the ash_allocator crate: the shared-mapping wrapper          *)
(* (DeviceMemory), Allocation handles, the page arena and page             *)
(* suballocator, the per-memory-type pool, and the trace decorator.        *)
(*                                                                         *)
(* Each group of operations has its own specification (SpecMap, SpecConc,  *)
(* SpecSub, SpecPool, SpecTrace); the variables a specification does not   *)
(* use keep their initial values.                                          *)
(***************************************************************************)
EXTENDS Integers, Naturals, Sequences, FiniteSets, Bags, TLC

VARIABLES
    \* ---- DeviceMemory (src/src/device_memory.rs) ----
    mapped,        \* shared_mapped_ptr cell -> MappedPtr {host_accessible_ptr, map_count}
    api_mapped,    \* the driver's view: is the vk::DeviceMemory object mapped?
    api_misuse,    \* the driver was asked to map a mapped object / unmap an unmapped one
    hist,          \* the most recent completed Allocation::map / unmap calls, or the
                   \* calls a test has made so far (observation)
    \* ---- threads calling DeviceMemory::map / unmap concurrently ----
    mutex,         \* holder of the Mutex<MappedPtr>, or of the Mutex around a shared
                   \* allocator (0 = free)
    pc,            \* thread -> position in map / unmap, or in a call on the shared
                   \* allocator
    held,          \* thread -> its completed maps minus its completed unmaps
    unmap_while_held,  \* unmap_memory was invoked while another thread held a map
    shared_call,   \* thread -> its call on the shared allocator: op, arg, the
                   \* allocator as the call read it (seen), and the allocations the
                   \* thread's pool has got and not given back (owned)
    \* ---- one PageSuballocator and its caller ----
    debug_build,   \* the build has overflow checks and debug assertions
    suballocator,  \* the PageSuballocator
    live,          \* bag of the sub-allocations returned and not yet freed
    sub_last,      \* the last allocate / free call and its result (observation)
    \* ---- a pool over the allocator at the bottom of the composition ----
    front,         \* "typed": a lone MemoryTypePoolAllocator; "pool": a PoolAllocator;
                   \* "suballocator", "bytes": the test holds the PageSuballocator
                   \* (pages of 4 bytes, of 1 byte)
    typed_pools,   \* memory type index -> MemoryTypePoolAllocator
    inner,         \* the allocator the pools (or the TraceAllocator) draw from
    pool_live,     \* bag of the allocations the pool returned and not yet freed
    pool_last,     \* the last allocate / free call on the pool (observation)
    \* ---- a TraceAllocator around the inner allocator ----
    trace,         \* its metrics: total and per_type
    trace_live,    \* bag of the allocations it returned and not yet freed
    trace_last,    \* the last allocate / free call on it (observation)
    \* ---- a SizedAllocator or a DedicatedAllocator over two allocators ----
    router,        \* the routing allocator and the two allocators it owns, or the
                   \* allocators of create_system_allocator
    route_live,    \* bag of [val, served_by]: allocations returned, not yet freed
    route_last,    \* the last allocate / free call on it (observation)
    \* ---- a PageArena used on its own ----
    page_arena,    \* pages and allocation_count
    arena_last     \* the last allocate_chunk / free_chunk call (observation)

dmVars    == <<mapped, api_mapped, api_misuse, hist>>
concVars  == <<mutex, pc, held, unmap_while_held, shared_call>>
subVars   == <<debug_build, suballocator, live, sub_last>>
poolVars  == <<front, typed_pools, pool_live, pool_last>>
traceVars == <<trace, trace_live, trace_last>>
vars      == <<mapped, api_mapped, api_misuse, hist, mutex, pc, held, unmap_while_held,
              shared_call,
              debug_build, suballocator, live, sub_last,
              front, typed_pools, inner, pool_live, pool_last,
              trace, trace_live, trace_last,
              router, route_live, route_last, page_arena, arena_last>>

-----------------------------------------------------------------------------
(* Bounds of the model *)

\* Callers stop issuing map() once a MappedPtr has this many mappings.
MaxMapCount == 3
\* Number of threads that hold a clone of one DeviceMemory.
NumThreads == 2
\* Length of the observation window over completed map/unmap calls.
HistLen == 4
\* Number of calls the caller of the routing allocator makes.
MaxRouteCalls == 3
\* Number of pages of the backing allocation of the lone PageSuballocator.
BackingPages == 4
\* Largest size_in_bytes a caller requests.
MaxSize == 2
\* Allocations the inner allocator is asked for before callers stop.
MaxChunks == 2
\* Allocations a caller of the pool holds at a time.
MaxLive == 2
\* allocate calls made on the TraceAllocator.
MaxTraceCalls == 3

-----------------------------------------------------------------------------
(* DeviceMemory *)

\* std::ptr::null_mut()
NullPtr == 0

\* Host addresses vkMapMemory may return for the object (it may differ between
\* two mappings of the same object).
ApiPtrs == {16, 32}

\* What a call of vkMapMemory can answer: a host address, or an error.
ApiOutcomes ==
    {[ok |-> TRUE, ptr |-> p] : p \in ApiPtrs} \cup {[ok |-> FALSE, ptr |-> NullPtr]}

\* The two Arc<Mutex<MappedPtr>> cells that can exist for one vk::DeviceMemory:
\* cell 1 is created by DeviceMemory::new, cell 2 exists only if some code
\* builds a second DeviceMemory around the same handle.
Cells == {1, 2}

\* impl Default for MappedPtr
MappedPtrDefault == [host_accessible_ptr |-> NullPtr, map_count |-> 0]

\* DeviceMemory::new(memory)
DeviceMemoryNew(memory) == [memory |-> memory, shared |-> 1]

\* #[derive(Clone)] for DeviceMemory: the Arc is shared.
DeviceMemoryClone(dm) == dm

\* A bug: the pointer is stored but a failure is not propagated before the
\* count is incremented.
DeviceMemoryMapCountsFailure(lock, r) ==
    IF lock.map_count = 0
    THEN IF ~r.ok
         THEN [lock |-> [lock EXCEPT !.map_count = @ + 1], api |-> "map",
               ok |-> FALSE, ptr |-> NullPtr]
         ELSE [lock |-> [host_accessible_ptr |-> r.ptr, map_count |-> 1],
               api |-> "map", ok |-> TRUE, ptr |-> r.ptr]
    ELSE [lock |-> [lock EXCEPT !.map_count = @ + 1], api |-> "none",
          ok |-> TRUE, ptr |-> lock.host_accessible_ptr]

\* A bug: the API is asked to map on every call.
DeviceMemoryMapAlways(lock, r) ==
    IF ~r.ok
    THEN [lock |-> lock, api |-> "map", ok |-> FALSE, ptr |-> NullPtr]
    ELSE [lock |-> [host_accessible_ptr |-> r.ptr, map_count |-> lock.map_count + 1],
          api |-> "map", ok |-> TRUE, ptr |-> r.ptr]

\* DeviceMemory::map, the body run under the lock.  r is what vkMapMemory
\* answers if it is called.  Result: the new MappedPtr, the API call made,
\* and the returned Result.
DeviceMemoryMap(lock, r) ==
    IF lock.map_count = 0
    THEN IF ~r.ok
         THEN [lock |-> lock, api |-> "map", ok |-> FALSE, ptr |-> NullPtr]
         ELSE [lock |-> [host_accessible_ptr |-> r.ptr, map_count |-> 1],
               api |-> "map", ok |-> TRUE, ptr |-> r.ptr]
    ELSE [lock |-> [lock EXCEPT !.map_count = @ + 1], api |-> "none",
          ok |-> TRUE, ptr |-> lock.host_accessible_ptr]

\* A bug: unmap without the map_count == 0 guard (u32 saturating at 0).
DeviceMemoryUnmapUnguarded(lock) ==
    IF lock.map_count <= 1
    THEN [lock |-> [host_accessible_ptr |-> NullPtr, map_count |-> 0],
          api |-> "unmap", ok |-> TRUE]
    ELSE [lock |-> [lock EXCEPT !.map_count = @ - 1], api |-> "none", ok |-> TRUE]

\* DeviceMemory::unmap, the body run under the lock.
DeviceMemoryUnmap(lock) ==
    IF lock.map_count = 0
    THEN [lock |-> lock, api |-> "none", ok |-> FALSE]
    ELSE IF lock.map_count = 1
         THEN [lock |-> [host_accessible_ptr |-> NullPtr, map_count |-> 0],
               api |-> "unmap", ok |-> TRUE]
         ELSE [lock |-> [lock EXCEPT !.map_count = @ - 1], api |-> "none", ok |-> TRUE]

\* The driver's bookkeeping for one object: what a map_memory / unmap_memory
\* call (or none) does to it, given whether the call succeeded.
ApiAfter(was_mapped, api, ok) ==
    IF api = "map" THEN (was_mapped \/ ok)
    ELSE IF api = "unmap" THEN FALSE
    ELSE was_mapped

ApiMisused(was_mapped, api) ==
    \/ (api = "map" /\ was_mapped)
    \/ (api = "unmap" /\ ~was_mapped)


-----------------------------------------------------------------------------
(* AllocationRequirements and Allocation *)

\* AllocationRequirements: the fields the allocators read.
\* dedicated_resource_handle is DedicatedResourceHandle::None, or kind
\* "Buffer" / "Image" with the resource's handle.
Requirements(size, alignment, mtype) ==
    [size_in_bytes |-> size, alignment |-> alignment, memory_type_index |-> mtype,
     prefers_dedicated_allocation |-> FALSE,
     requires_dedicated_allocation |-> FALSE,
     dedicated_resource_handle |-> [kind |-> "None", handle |-> 0]]

\* A bug: no resource is named.
AsDedicatedAllocationInfoDefault(resource) == [buffer |-> 0, image |-> 0]

\* DedicatedResourceHandle::as_dedicated_allocation_info: a
\* vk::MemoryDedicatedAllocateInfo, null handles for what is missing
AsDedicatedAllocationInfo(resource) ==
    [buffer |-> IF resource.kind = "Buffer" THEN resource.handle ELSE 0,
     image |-> IF resource.kind = "Image" THEN resource.handle ELSE 0]

\* AllocationRequirements::aligned_size
AlignedSize(req) == req.size_in_bytes + req.alignment - 1

\* "no parent": the parent_id of an allocation that is not a sub-region.
NoParent == <<>>

\* Allocation::id of a sub-region: the id of the allocation it was cut from,
\* followed by its byte offset.  Ids of allocations that are no sub-region are
\* the one-element sequences <<serial>> their allocator numbers them with.
SubAllocationId(parent_id, offset) == Append(parent_id, offset)

\* Allocation::new, serial numbering the allocation for its id
AllocationNew(device_memory, mtype, offset, size, req, serial) ==
    [device_memory |-> device_memory,
     offset_in_bytes |-> offset,
     size_in_bytes |-> size,
     memory_type_index |-> mtype,
     allocation_requirements |-> req,
     id |-> <<serial>>,
     parent_id |-> NoParent]

\* A bug: the sub-allocation wraps the handle in a new DeviceMemory (the
\* second MappedPtr cell) instead of a clone.
SuballocateRewraps(allocation, offset, size_in_bytes, offset_alignment) ==
    LET full_offset == allocation.offset_in_bytes + offset IN
    [in_bounds |-> full_offset + size_in_bytes
                     <= allocation.offset_in_bytes + allocation.size_in_bytes,
     aligned |-> full_offset % offset_alignment = 0,
     val |-> [device_memory |-> [memory |-> allocation.device_memory.memory,
                                shared |-> 2],
              offset_in_bytes |-> full_offset,
              size_in_bytes |-> size_in_bytes,
              memory_type_index |-> allocation.memory_type_index,
              allocation_requirements |->
                  [allocation.allocation_requirements EXCEPT
                      !.size_in_bytes = size_in_bytes,
                      !.alignment = offset_alignment],
              id |-> SubAllocationId(allocation.id, full_offset),
              parent_id |-> allocation.id]]

\* A bug: the sub-region keeps the size of the region it was cut from.
SuballocateKeepsSize(allocation, offset, size_in_bytes, offset_alignment) ==
    LET full_offset == allocation.offset_in_bytes + offset IN
    [in_bounds |-> full_offset + size_in_bytes
                     <= allocation.offset_in_bytes + allocation.size_in_bytes,
     aligned |-> full_offset % offset_alignment = 0,
     val |-> [device_memory |-> DeviceMemoryClone(allocation.device_memory),
              offset_in_bytes |-> full_offset,
              size_in_bytes |-> allocation.size_in_bytes,
              memory_type_index |-> allocation.memory_type_index,
              allocation_requirements |->
                  [allocation.allocation_requirements EXCEPT
                      !.size_in_bytes = size_in_bytes,
                      !.alignment = offset_alignment],
              id |-> SubAllocationId(allocation.id, full_offset),
              parent_id |-> allocation.id]]

\* Allocation::suballocate.  in_bounds and aligned are the two assert!s; val
\* is the value built when both hold.
Suballocate(allocation, offset, size_in_bytes, offset_alignment) ==
    LET full_offset == allocation.offset_in_bytes + offset IN
    [in_bounds |-> full_offset + size_in_bytes
                     <= allocation.offset_in_bytes + allocation.size_in_bytes,
     aligned |-> full_offset % offset_alignment = 0,
     val |-> [device_memory |-> DeviceMemoryClone(allocation.device_memory),
              offset_in_bytes |-> full_offset,
              size_in_bytes |-> size_in_bytes,
              memory_type_index |-> allocation.memory_type_index,
              allocation_requirements |->
                  [allocation.allocation_requirements EXCEPT
                      !.size_in_bytes = size_in_bytes,
                      !.alignment = offset_alignment],
              id |-> SubAllocationId(allocation.id, full_offset),
              parent_id |-> allocation.id]]

\* Allocation::map: the device memory's base pointer plus the offset.
AllocationMap(allocation, lock, r) ==
    LET m == DeviceMemoryMap(lock, r) IN
    [m EXCEPT !.ptr = IF m.ok THEN m.ptr + allocation.offset_in_bytes ELSE NullPtr]

\* Allocation::unmap
AllocationUnmap(allocation, lock) == DeviceMemoryUnmap(lock)

-----------------------------------------------------------------------------
(* PageArena (page_suballocator/page_arena.rs) *)

\* Page::Free and Page::Allocated { first_in_chunk }.  Page i of the Vec is
\* pages[i + 1] here.
FreePage == [allocated |-> FALSE, first_in_chunk |-> 0]
AllocatedPage(k) == [allocated |-> TRUE, first_in_chunk |-> k]

\* PageArena::new
PageArenaNew(page_count) ==
    [pages |-> [i \in 1..page_count |-> FreePage], allocation_count |-> 0]

\* PageArena::is_empty
ArenaIsEmpty(arena) == arena.allocation_count = 0

\* A bug: the run has to be one page longer than the request
\* (index - start == page_count).
FindFirstFreeChunkOneMore(pages, page_count, checks) ==
    CHOOSE found \in
        {IF starts = {} THEN [kind |-> "none", index |-> 0]
         ELSE [kind |-> "some",
               index |-> CHOOSE s \in starts : \A t \in starts : s <= t] :
           starts \in {{s \in 0..(Len(pages) - page_count - 1) :
                          \A i \in (s + 1)..(s + page_count + 1) :
                              pages[i] = FreePage}}} : TRUE

\* A bug: the last run that is long enough is taken, not the first.
FindFirstFreeChunkLastFit(pages, page_count, checks) ==
    CHOOSE found \in
        {IF starts = {} THEN [kind |-> "none", index |-> 0]
         ELSE [kind |-> "some",
               index |-> CHOOSE s \in starts : \A t \in starts : s >= t] :
           starts \in {{s \in 0..(Len(pages) - page_count) :
                          \A i \in (s + 1)..(s + page_count) :
                              pages[i] = FreePage}}} : TRUE

\* PageArena::find_first_free_chunk.  The loop walks the pages in order,
\* keeps in start the first page of the run of Free pages it is in, and
\* returns start at the first Free page with index - start = page_count - 1:
\* its result is the least page at which page_count Free pages begin (starts
\* is the set of the pages s, pages[s + 1] here, at which they do).
\* page_count - 1 is a usize subtraction made at every Free page: for
\* page_count = 0 it panics when overflow checks are on and otherwise wraps
\* to usize::MAX, which no (index - start) equals.
FindFirstFreeChunk(pages, page_count, checks) ==
    IF page_count = 0
    THEN [kind |-> IF checks /\ (\E i \in DOMAIN pages : pages[i] = FreePage)
                   THEN "panic" ELSE "none",
          index |-> 0]
    ELSE CHOOSE found \in
             {IF starts = {} THEN [kind |-> "none", index |-> 0]
              ELSE [kind |-> "some",
                    index |-> CHOOSE s \in starts : \A t \in starts : s <= t] :
                starts \in {{s \in 0..(Len(pages) - page_count) :
                               \A i \in (s + 1)..(s + page_count) :
                                   pages[i] = FreePage}}} : TRUE

\* PageArena::allocate_chunk.  kind is "some" (with index), "none" or "panic".
AllocateChunk(arena, page_count, checks) ==
    CHOOSE chunk \in
        {IF found.kind # "some"
         THEN [kind |-> found.kind, index |-> 0, arena |-> arena]
         ELSE [kind |-> "some",
               index |-> found.index,
               arena |-> [pages |->
                             [i \in 1..Len(arena.pages) |->
                                 IF i - 1 >= found.index
                                    /\ i - 1 < found.index + page_count
                                 THEN AllocatedPage(found.index)
                                 ELSE arena.pages[i]],
                          allocation_count |-> arena.allocation_count + 1]] :
           found \in {FindFirstFreeChunk(arena.pages, page_count, checks)}} : TRUE

\* A bug: free_chunk frees the first page of the run only.
RunEndOnePage(pages, first, i) == first + 1

\* A bug: free_chunk walks on while the page is allocated, into the chunks
\* that follow.
RunEndAnyAllocated(pages, first, i) ==
    CHOOSE stop \in i..Len(pages) :
        /\ \A k \in (i + 1)..stop : pages[k].allocated
        /\ stop = Len(pages) \/ ~pages[stop + 1].allocated

\* The pages free_chunk walks over: from first on, while the page carries
\* Allocated { first }.
RunEnd(pages, first, i) ==
    CHOOSE stop \in i..Len(pages) :
        /\ \A k \in (i + 1)..stop : pages[k] = AllocatedPage(first)
        /\ stop = Len(pages) \/ pages[stop + 1] # AllocatedPage(first)

\* A bug: free_chunk does not count the chunk it frees.
FreeChunkUncounted(arena, index, checks) ==
    IF index >= Len(arena.pages) THEN [kind |-> "panic", arena |-> arena]
    ELSE IF arena.pages[index + 1] = FreePage
         THEN [kind |-> IF checks THEN "panic" ELSE "noop", arena |-> arena]
         ELSE CHOOSE freed \in
                  {[kind |-> "ok",
                    arena |-> [pages |->
                                  [i \in 1..Len(arena.pages) |->
                                      IF i - 1 >= first /\ i - 1 < stop
                                      THEN FreePage
                                      ELSE arena.pages[i]],
                               allocation_count |-> arena.allocation_count]] :
                      first \in {arena.pages[index + 1].first_in_chunk},
                      stop \in {RunEnd(arena.pages,
                                       arena.pages[index + 1].first_in_chunk,
                                       arena.pages[index + 1].first_in_chunk)}} : TRUE

\* A bug: free_chunk walks from the page it was given, not from the first
\* page of the run.
FreeChunkFromIndex(arena, index, checks) ==
    IF index >= Len(arena.pages) THEN [kind |-> "panic", arena |-> arena]
    ELSE IF arena.pages[index + 1] = FreePage
         THEN [kind |-> IF checks THEN "panic" ELSE "noop", arena |-> arena]
         ELSE CHOOSE freed \in
                  {[kind |-> "ok",
                    arena |-> [pages |->
                                  [i \in 1..Len(arena.pages) |->
                                      IF i - 1 >= index /\ i - 1 < stop
                                      THEN FreePage
                                      ELSE arena.pages[i]],
                               allocation_count |-> arena.allocation_count - 1]] :
                      first \in {arena.pages[index + 1].first_in_chunk},
                      stop \in {RunEnd(arena.pages,
                                       arena.pages[index + 1].first_in_chunk,
                                       arena.pages[index + 1].first_in_chunk)}} : TRUE

\* PageArena::free_chunk.  kind is "ok", "noop" (a Free page without debug
\* assertions) or "panic" (index out of bounds; a Free page with debug
\* assertions).
FreeChunk(arena, index, checks) ==
    IF index >= Len(arena.pages) THEN [kind |-> "panic", arena |-> arena]
    ELSE IF arena.pages[index + 1] = FreePage
         THEN [kind |-> IF checks THEN "panic" ELSE "noop", arena |-> arena]
         ELSE CHOOSE freed \in
                  {[kind |-> "ok",
                    arena |-> [pages |->
                                  [i \in 1..Len(arena.pages) |->
                                      IF i - 1 >= first /\ i - 1 < stop
                                      THEN FreePage
                                      ELSE arena.pages[i]],
                               allocation_count |-> arena.allocation_count - 1]] :
                      first \in {arena.pages[index + 1].first_in_chunk},
                      stop \in {RunEnd(arena.pages,
                                       arena.pages[index + 1].first_in_chunk,
                                       arena.pages[index + 1].first_in_chunk)}} : TRUE

-----------------------------------------------------------------------------
(* PageSuballocator (page_suballocator/mod.rs) *)

\* A bug: one page more than the quotient, also when nothing remains.
DivCeilAlwaysUp(top, bottom) == (top \div bottom) + 1

\* div_ceil
DivCeil(top, bottom) == (top \div bottom) + (IF top % bottom # 0 THEN 1 ELSE 0)

\* PageSuballocator::for_allocation (the assert! holds for every backing
\* allocation built here: its size is a whole number of pages).
ForAllocation(allocation, page_size_in_bytes) ==
    [allocation |-> allocation,
     page_size_in_bytes |-> page_size_in_bytes,
     arena |-> PageArenaNew(allocation.size_in_bytes \div page_size_in_bytes)]

\* PageSuballocator::is_empty
IsEmpty(ps) == ArenaIsEmpty(ps.arena)

\* PageSuballocator::release_allocation
ReleaseAllocation(ps) == ps.allocation

\* The result of a call that did not produce an allocation.
NoAllocation == [none |-> TRUE]

Failed(ps, status, why) ==
    [status |-> status, why |-> why, ps |-> ps, val |-> NoAllocation]

\* The offset_alignment allocate_unaligned hands to Allocation::suballocate:
\* it places chunks on page boundaries and knows no alignment.
UnalignedOffsetAlignment == 1

\* PageSuballocator::allocate_unaligned.  status is "ok", "err" (no
\* contiguous chunk) or "panic" (why says which assertion or check).
AllocateUnaligned(ps, size_in_bytes, checks) ==
    LET page_count == DivCeil(size_in_bytes, ps.page_size_in_bytes)
        chunk == AllocateChunk(ps.arena, page_count, checks)
    IN IF chunk.kind = "none" THEN Failed(ps, "err", "no contiguous chunk")
       ELSE IF chunk.kind = "panic" THEN Failed(ps, "panic", "overflow")
       ELSE LET sub == Suballocate(ps.allocation,
                                   chunk.index * ps.page_size_in_bytes,
                                   size_in_bytes,
                                   UnalignedOffsetAlignment)
            IN IF ~sub.in_bounds THEN Failed(ps, "panic", "bounds")
               ELSE IF ~sub.aligned THEN Failed(ps, "panic", "alignment")
               ELSE [status |-> "ok", why |-> "",
                     ps |-> [ps EXCEPT !.arena = chunk.arena],
                     val |-> sub.val]

\* The test at the head of allocate:
\* (self.allocation.offset_in_bytes() + self.page_size_in_bytes) % alignment == 0
PageBoundariesAligned(ps, alignment) ==
    (ps.allocation.offset_in_bytes + ps.page_size_in_bytes) % alignment = 0

\* A bug: the offset of the run is returned as it is.
AlignmentCorrectionNone(offset, alignment) == 0

\* alignment_correction in allocate
AlignmentCorrection(offset, alignment) ==
    IF offset % alignment = 0 THEN 0 ELSE alignment - (offset % alignment)

\* aligned_size in allocate: size_in_bytes + (alignment - 1)
PaddedSize(size_in_bytes, alignment) == size_in_bytes + (alignment - 1)

\* PageSuballocator::allocate.  The returned sub-allocation names the backing
\* allocation as its parent.
PSAllocate(ps, size_in_bytes, alignment, checks) ==
    IF PageBoundariesAligned(ps, alignment)
    THEN AllocateUnaligned(ps, size_in_bytes, checks)
    ELSE LET unaligned ==
                 AllocateUnaligned(ps, PaddedSize(size_in_bytes, alignment), checks)
         IN IF unaligned.status # "ok" THEN unaligned
            ELSE LET correction ==
                         AlignmentCorrection(unaligned.val.offset_in_bytes, alignment)
                     sub == Suballocate(unaligned.val, correction, size_in_bytes,
                                        alignment)
                 IN IF ~sub.in_bounds THEN Failed(ps, "panic", "bounds")
                    ELSE IF ~sub.aligned THEN Failed(ps, "panic", "alignment")
                    ELSE [status |-> "ok", why |-> "",
                          ps |-> unaligned.ps,
                          val |-> [sub.val EXCEPT
                                      !.parent_id = ps.allocation.id,
                                      !.id = SubAllocationId(ps.allocation.id,
                                                             sub.val.offset_in_bytes)]]

\* A bug: free does not compare the device-memory handles.
PSFreeAnyHandle(ps, allocation, checks) ==
    LET relative_offset == allocation.offset_in_bytes
                             - ps.allocation.offset_in_bytes
        page_index == relative_offset \div ps.page_size_in_bytes
        freed == FreeChunk(ps.arena, page_index, checks)
    IN [status |-> freed.kind, ps |-> [ps EXCEPT !.arena = freed.arena]]

\* PageSuballocator::free.  status is "foreign" (another memory handle),
\* "ok", "noop" or "panic" (from free_chunk).
PSFree(ps, allocation, checks) ==
    IF ps.allocation.device_memory.memory # allocation.device_memory.memory
    THEN [status |-> "foreign", ps |-> ps]
    ELSE LET relative_offset == allocation.offset_in_bytes
                                  - ps.allocation.offset_in_bytes
             page_index == relative_offset \div ps.page_size_in_bytes
             freed == FreeChunk(ps.arena, page_index, checks)
         IN [status |-> freed.kind, ps |-> [ps EXCEPT !.arena = freed.arena]]

-----------------------------------------------------------------------------
(* The allocators at the bottom of a composition *)

\* vk::DeviceMemory::null(), the handle of every FakeAllocator allocation
NullHandle == 0

\* FakeAllocator::default(), or a DeviceAllocator whose driver holds no
\* memory object yet.  allocations and offset belong to the FakeAllocator;
\* for a DeviceAllocator allocation_count numbers the driver's handles and
\* active_allocations counts its memory objects.  outstanding is the set of
\* ids of the allocations handed out and not freed.  driver_call is the last
\* vkAllocateMemory call of a DeviceAllocator, with what it passed.
InnerNew(kind) ==
    [kind |-> kind,
     allocations |-> <<>>,
     active_allocations |-> 0,
     allocation_count |-> 0,
     offset |-> 0,
     outstanding |-> {},
     driver_call |-> [call |-> "none"]]

\* FakeAllocator::allocate: never fails
FakeAllocate(fake, req) ==
    LET counted == [fake EXCEPT !.active_allocations = @ + 1,
                                !.allocation_count = @ + 1,
                                !.allocations = Append(@, req)]
        allocation == AllocationNew(DeviceMemoryNew(NullHandle),
                                    req.memory_type_index,
                                    fake.offset,
                                    req.size_in_bytes,
                                    req,
                                    counted.allocation_count)
    IN [status |-> "ok",
        inner |-> [counted EXCEPT !.offset = @ + req.size_in_bytes,
                                  !.outstanding = @ \cup {allocation.id}],
        val |-> allocation]

\* FakeAllocator::free: active_allocations -= 1 on a u32.  At 0 it panics
\* under overflow checks and otherwise wraps to u32::MAX, which is written
\* -1 here (the value modulo 2^32).
FakeFree(fake, allocation, checks) ==
    IF fake.active_allocations = 0 /\ checks
    THEN [status |-> "panic", inner |-> fake]
    ELSE [status |-> "ok",
          inner |-> [fake EXCEPT
                        !.active_allocations = @ - 1,
                        !.outstanding = @ \ {allocation.id}]]

\* DeviceAllocator::allocate: vkAllocateMemory succeeds (api_ok) with a fresh
\* handle, or fails
DeviceAllocate(dev, req, api_ok) ==
    LET create_info ==
            [call |-> "vkAllocateMemory",
             p_next |-> AsDedicatedAllocationInfo(req.dedicated_resource_handle),
             allocation_size |-> req.size_in_bytes,
             memory_type_index |-> req.memory_type_index]
    IN IF ~api_ok
       THEN [status |-> "err", inner |-> [dev EXCEPT !.driver_call = create_info],
             val |-> NoAllocation]
       ELSE LET memory == dev.allocation_count + 1
                allocation == AllocationNew(DeviceMemoryNew(memory),
                                            req.memory_type_index,
                                            0,
                                            req.size_in_bytes,
                                            req,
                                            memory)
            IN [status |-> "ok",
                inner |-> [dev EXCEPT !.allocation_count = @ + 1,
                                      !.active_allocations = @ + 1,
                                      !.outstanding = @ \cup {allocation.id},
                                      !.driver_call = create_info],
                val |-> allocation]

\* DeviceAllocator::free: vkFreeMemory
DeviceFree(dev, allocation, checks) ==
    [status |-> "ok",
     inner |-> [dev EXCEPT !.active_allocations = @ - 1,
                           !.outstanding = @ \ {allocation.id}]]

\* self.allocator.allocate(..) / self.allocator.free(..) of a decorator
InnerAllocate(inner_allocator, req, api_ok) ==
    IF inner_allocator.kind = "fake" THEN FakeAllocate(inner_allocator, req)
    ELSE DeviceAllocate(inner_allocator, req, api_ok)

\* The answers vkAllocateMemory can give to the next request: only a
\* DeviceAllocator asks the driver.
ApiAnswers(inner_allocator) ==
    IF inner_allocator.kind = "fake" THEN {TRUE} ELSE BOOLEAN

InnerFree(inner_allocator, allocation, checks) ==
    IF inner_allocator.kind = "fake" THEN FakeFree(inner_allocator, allocation, checks)
    ELSE DeviceFree(inner_allocator, allocation, checks)

-----------------------------------------------------------------------------
(* MemoryTypePoolAllocator and PoolAllocator *)

\* HashMap::new()
EmptyMap == [k \in {} |-> 0]

\* HashMap::insert and HashMap::remove
MapInsert(map, key, value) ==
    [k \in DOMAIN map \cup {key} |-> IF k = key THEN value ELSE map[k]]

MapRemove(map, key) == [k \in DOMAIN map \ {key} |-> map[k]]

\* MemoryTypePoolAllocator::new
MTPNew(memory_type_index, chunk_size, page_size) ==
    [memory_type_index |-> memory_type_index,
     chunk_size |-> chunk_size,
     page_size |-> page_size,
     pool |-> EmptyMap]

\* What an allocate call that is no success reports: the text of the error
\* (or the place of the panic), and the number formatted into the text.
Why(text) == [text |-> text, bytes |-> 0]

\* What one allocate call did.  chunk_requested: it asked the inner allocator
\* for a chunk.
MTPOutcome(status, why, p, inner_allocator, val, chunk_requested) ==
    [status |-> status, why |-> why, p |-> p, inner |-> inner_allocator,
     val |-> val, chunk_requested |-> chunk_requested]

\* A bug: the chunk of a failed request stays with the inner allocator.
RollbackKeepsChunk(inner_allocator, fresh, checks) ==
    [status |-> "ok", inner |-> inner_allocator]

\* The Err arm of allocate: self.allocator.free(suballocator.release_allocation())
Rollback(inner_allocator, fresh, checks) ==
    InnerFree(inner_allocator, ReleaseAllocation(fresh), checks)

\* A bug: the chunk is requested with the alignment of the request.
ChunkRequirementsKeepsAlignment(p, req) ==
    [req EXCEPT !.size_in_bytes = p.chunk_size,
                !.memory_type_index = p.memory_type_index]

\* chunk_requirements of allocate
ChunkRequirements(p, req) ==
    [req EXCEPT !.alignment = 1,
                !.size_in_bytes = p.chunk_size,
                !.memory_type_index = p.memory_type_index]

\* The second half of allocate: a new chunk from the inner allocator, and the
\* request served from it
MTPAllocateFromNewChunk(p, inner_allocator, req, api_ok, checks) ==
    LET chunk == InnerAllocate(inner_allocator, ChunkRequirements(p, req), api_ok)
    IN IF chunk.status # "ok"
       THEN MTPOutcome("err", Why("inner allocator"), p, chunk.inner, NoAllocation, TRUE)
       ELSE LET fresh == ForAllocation(chunk.val, p.page_size)
                sub == PSAllocate(fresh, req.size_in_bytes, req.alignment, checks)
            IN IF sub.status = "err"
               THEN LET freed == Rollback(chunk.inner, fresh, checks) IN
                    MTPOutcome(IF freed.status = "ok" THEN "err" ELSE "panic",
                               Why("rollback"), p, freed.inner, NoAllocation, TRUE)
               ELSE IF sub.status = "panic"
               THEN MTPOutcome("panic", Why(sub.why), p, chunk.inner, NoAllocation, TRUE)
               ELSE IF checks /\ (\/ sub.val.parent_id # chunk.val.id
                                  \/ chunk.val.id \in DOMAIN p.pool)
               THEN MTPOutcome("panic", Why("debug_assert"), p, chunk.inner,
                               NoAllocation, TRUE)
               ELSE MTPOutcome("ok", Why(""),
                               [p EXCEPT !.pool = MapInsert(@, chunk.val.id, sub.ps)],
                               chunk.inner, sub.val, TRUE)

\* A bug: requests of every memory type are served.
TypeMatchesAlways(p, req) == TRUE

\* The first test of allocate
TypeMatches(p, req) == p.memory_type_index = req.memory_type_index

\* MemoryTypePoolAllocator::allocate: the set of results the call can have.
\* pool.values_mut() visits the chunks in the HashMap's order, so any chunk
\* whose suballocator does not answer Err can be the one that decides.
MTPAllocate(p, inner_allocator, req, api_ok, checks) ==
    IF ~TypeMatches(p, req)
    THEN {MTPOutcome("err", Why("Memory type index mismatch"), p,
                     inner_allocator, NoAllocation, FALSE)}
    ELSE IF AlignedSize(req) >= p.chunk_size
    THEN {MTPOutcome("err",
                     [text |-> "Unable to allocate a chunk of memory with {} bytes",
                      bytes |-> req.size_in_bytes],
                     p, inner_allocator, NoAllocation, FALSE)}
    ELSE LET tried == [k \in DOMAIN p.pool |->
                          PSAllocate(p.pool[k], req.size_in_bytes, req.alignment,
                                     checks)]
             deciding == {k \in DOMAIN p.pool : tried[k].status # "err"}
         IN IF deciding # {}
            THEN {MTPOutcome(tried[k].status, Why(tried[k].why),
                             IF tried[k].status = "ok"
                             THEN [p EXCEPT !.pool[k] = tried[k].ps]
                             ELSE p,
                             inner_allocator, tried[k].val, FALSE) : k \in deciding}
            ELSE {MTPAllocateFromNewChunk(p, inner_allocator, req, api_ok, checks)}

\* A bug: an empty chunk is kept.
ChunkIsSpentNever(ps) == FALSE

\* The test of free that decides whether the chunk goes back
ChunkIsSpent(ps) == IsEmpty(ps)

\* MemoryTypePoolAllocator::free.  freed is what the suballocator's free did.
MTPFree(p, inner_allocator, allocation, checks) ==
    IF allocation.parent_id = NoParent
    THEN [status |-> "panic", freed |-> "no parent", p |-> p, inner |-> inner_allocator]
    ELSE IF allocation.parent_id \notin DOMAIN p.pool
    THEN [status |-> "panic", freed |-> "unknown chunk", p |-> p,
          inner |-> inner_allocator]
    ELSE LET key == allocation.parent_id
             freed == PSFree(p.pool[key], allocation, checks)
         IN IF freed.status = "panic"
            THEN [status |-> "panic", freed |-> "panic", p |-> p,
                  inner |-> inner_allocator]
            ELSE IF ChunkIsSpent(freed.ps)
            THEN LET released == InnerFree(inner_allocator,
                                           ReleaseAllocation(freed.ps), checks)
                 IN [status |-> released.status,
                     freed |-> freed.status,
                     p |-> [p EXCEPT !.pool = MapRemove(@, key)],
                     inner |-> released.inner]
            ELSE [status |-> "ok",
                  freed |-> freed.status,
                  p |-> [p EXCEPT !.pool[key] = freed.ps],
                  inner |-> inner_allocator]

\* PoolAllocator::new: one pool for each memory type of the device
PoolAllocatorNew(memory_types, chunk_size, page_size) ==
    [t \in memory_types |-> MTPNew(t, chunk_size, page_size)]

\* A bug: every request goes to the pool of the first memory type.
PoolAllocatorAllocateFirstPool(pools, inner_allocator, req, api_ok, checks) ==
    {[status |-> o.status, why |-> o.why,
      typed_pools |-> [pools EXCEPT ![0] = o.p],
      inner |-> o.inner, val |-> o.val,
      chunk_requested |-> o.chunk_requested] :
        o \in MTPAllocate(pools[0], inner_allocator, req, api_ok, checks)}

\* PoolAllocator::allocate
PoolAllocatorAllocate(pools, inner_allocator, req, api_ok, checks) ==
    IF req.memory_type_index \notin DOMAIN pools
    THEN {[status |-> "panic", why |-> Why("unwrap"), typed_pools |-> pools,
           inner |-> inner_allocator, val |-> NoAllocation,
           chunk_requested |-> FALSE]}
    ELSE LET t == req.memory_type_index IN
         {[status |-> o.status, why |-> o.why,
           typed_pools |-> [pools EXCEPT ![t] = o.p],
           inner |-> o.inner, val |-> o.val,
           chunk_requested |-> o.chunk_requested] :
             o \in MTPAllocate(pools[t], inner_allocator, req, api_ok, checks)}

\* PoolAllocator::free
PoolAllocatorFree(pools, inner_allocator, allocation, checks) ==
    IF allocation.memory_type_index \notin DOMAIN pools
    THEN [status |-> "panic", freed |-> "unwrap", typed_pools |-> pools,
          inner |-> inner_allocator]
    ELSE LET t == allocation.memory_type_index
             r == MTPFree(pools[t], inner_allocator, allocation, checks)
         IN [status |-> r.status, freed |-> r.freed,
             typed_pools |-> [pools EXCEPT ![t] = r.p],
             inner |-> r.inner]

-----------------------------------------------------------------------------
(* SizedAllocator and DedicatedAllocator *)

\* One of the two allocators a routing allocator owns: a terminal allocator
\* (kind "leaf") or a PoolAllocator over its own terminal allocator (kind
\* "pool").  allocate and free on it:
SideAllocate(side, req, api_ok, checks) ==
    IF side.kind = "pool"
    THEN {[status |-> o.status,
           side |-> [side EXCEPT !.typed_pools = o.typed_pools, !.inner = o.inner],
           val |-> o.val] :
             o \in PoolAllocatorAllocate(side.typed_pools, side.inner, req, api_ok,
                                         checks)}
    ELSE {[status |-> o.status, side |-> [side EXCEPT !.inner = o.inner],
           val |-> o.val] : o \in {InnerAllocate(side.inner, req, api_ok)}}

\* The result carries status and what the allocator is after the call:
\* typed_pools and inner.
SideFree(side, allocation, checks) ==
    IF side.kind = "pool"
    THEN PoolAllocatorFree(side.typed_pools, side.inner, allocation, checks)
    ELSE [typed_pools |-> side.typed_pools]
            @@ InnerFree(side.inner, allocation, checks)

\* A bug: a request of exactly the trigger size goes to the small allocator.
SizedRouteInclusive(size_trigger, req) ==
    IF AlignedSize(req) <= size_trigger THEN "small_allocator" ELSE "large_allocator"

\* The test of SizedAllocator::allocate and, on the allocation's stored
\* requirements, of SizedAllocator::free
SizedRoute(size_trigger, req) ==
    IF AlignedSize(req) < size_trigger THEN "small_allocator" ELSE "large_allocator"

\* SizedAllocator::allocate.  to: the allocator that was called.
SizedAllocate(sized, req, api_ok, checks) ==
    LET to == SizedRoute(sized.size_trigger, req) IN
    {[status |-> o.status, to |-> to, router |-> [sized EXCEPT ![to] = o.side],
      val |-> o.val] : o \in SideAllocate(sized[to], req, api_ok, checks)}

\* SizedAllocator::free.  to: the allocator that was called; freed: what
\* its free did.
SizedFree(sized, allocation, checks) ==
    LET to == SizedRoute(sized.size_trigger, allocation.allocation_requirements)
    IN [to |-> to, freed |-> SideFree(sized[to], allocation, checks)]

\* A bug: a preference for a dedicated allocation is ignored.
DedicatedRouteRequiredOnly(req) ==
    IF req.requires_dedicated_allocation THEN "device_allocator" ELSE "allocator"

\* The test of DedicatedAllocator::allocate and, on the allocation's stored
\* requirements, of DedicatedAllocator::free
DedicatedRoute(req) ==
    IF req.prefers_dedicated_allocation \/ req.requires_dedicated_allocation
    THEN "device_allocator" ELSE "allocator"

\* DedicatedAllocator::allocate
DedicatedAllocate(dedicated, req, api_ok, checks) ==
    LET to == DedicatedRoute(req) IN
    {[status |-> o.status, to |-> to, router |-> [dedicated EXCEPT ![to] = o.side],
      val |-> o.val] : o \in SideAllocate(dedicated[to], req, api_ok, checks)}

\* DedicatedAllocator::free
DedicatedFree(dedicated, allocation, checks) ==
    LET to == DedicatedRoute(allocation.allocation_requirements)
    IN [to |-> to, freed |-> SideFree(dedicated[to], allocation, checks)]

-----------------------------------------------------------------------------
(* TraceAllocator *)

\* The Metrics of TraceAllocator::new and of per_type.entry(..).or_default()
MetricsDefault ==
    [total_allocations |-> 0, leaked_allocations |-> 0,
     max_size |-> 0, min_size |-> 0, avg_size |-> 0]

\* Metrics::record_allocation (u64 arithmetic: / is integer division)
RecordAllocation(m, size) ==
    LET n == m.total_allocations + 1 IN
    [total_allocations |-> n,
     leaked_allocations |-> m.leaked_allocations + 1,
     max_size |-> IF m.max_size >= size THEN m.max_size ELSE size,
     min_size |-> IF m.min_size <= size THEN m.min_size ELSE size,
     avg_size |-> (size \div n) + ((n - 1) \div n) * m.avg_size]

\* Metrics::record_free
RecordFree(m) == [m EXCEPT !.leaked_allocations = @ - 1]

\* TraceAllocator::new
TraceAllocatorNew == [total |-> MetricsDefault, per_type |-> EmptyMap]

\* self.per_type.entry(memory_type_index).or_default()
EntryOrDefault(per_type, memory_type_index) ==
    IF memory_type_index \in DOMAIN per_type THEN per_type[memory_type_index]
    ELSE MetricsDefault

\* TraceAllocator::allocate
TraceAllocate(tr, wrapped_allocator, req, api_ok) ==
    LET t == req.memory_type_index
        recorded ==
            [total |-> RecordAllocation(tr.total, req.size_in_bytes),
             per_type |-> MapInsert(tr.per_type, t,
                                    RecordAllocation(EntryOrDefault(tr.per_type, t),
                                                     req.size_in_bytes))]
        r == InnerAllocate(wrapped_allocator, req, api_ok)
    IN [status |-> r.status, trace |-> recorded, inner |-> r.inner, val |-> r.val]

\* TraceAllocator::free.  leaked_allocations -= 1 is a u32 subtraction that
\* panics at 0 under overflow checks.
TraceFree(tr, wrapped_allocator, allocation, checks) ==
    LET t == allocation.memory_type_index
        entry == EntryOrDefault(tr.per_type, t)
    IN IF checks /\ (tr.total.leaked_allocations = 0 \/ entry.leaked_allocations = 0)
       THEN [status |-> "panic", trace |-> tr, inner |-> wrapped_allocator]
       ELSE LET r == InnerFree(wrapped_allocator, allocation, checks) IN
            [status |-> r.status,
             trace |-> [total |-> RecordFree(tr.total),
                        per_type |-> MapInsert(tr.per_type, t, RecordFree(entry))],
             inner |-> r.inner]

-----------------------------------------------------------------------------
(* SpecMap: map / unmap through the Allocations that share one DeviceMemory *)

\* The vk::DeviceMemory handle of the one object of SpecMap and SpecConc.
TheMemory == 1

\* An 8-byte host-visible allocation as the DeviceAllocator returns it.
RootAllocation ==
    AllocationNew(DeviceMemoryNew(TheMemory), 0, 0, 8, Requirements(8, 4, 0), 1)

\* The Allocations in use: the original, a clone of it (#[derive(Clone)]), and
\* a sub-allocation of its second half.
MapHandles ==
    [root  |-> RootAllocation,
     clone |-> RootAllocation,
     sub   |-> Suballocate(RootAllocation, 4, 4, 4).val]

HandleNames == DOMAIN MapHandles

CellOf(h) == MapHandles[h].device_memory.shared

\* Observation of one completed call.
Completed(op, h, res, before) ==
    [op |-> op, h |-> h, ok |-> res.ok,
     ptr |-> IF op = "map" THEN res.ptr ELSE NullPtr,
     api |-> res.api,
     before |-> before,
     after |-> res.lock]

Remember(entry) ==
    IF Len(hist) < HistLen THEN Append(hist, entry)
    ELSE Append(Tail(hist), entry)

\* A fresh DeviceMemory, nothing mapped, no thread inside map or unmap.
InitDeviceMemory ==
    /\ mapped = [c \in Cells |-> MappedPtrDefault]
    /\ api_mapped = FALSE
    /\ api_misuse = FALSE
    /\ hist = <<>>
    /\ mutex = 0
    /\ pc = [t \in 1..NumThreads |-> "idle"]
    /\ held = [t \in 1..NumThreads |-> 0]
    /\ unmap_while_held = FALSE
    /\ shared_call = [t \in 1..NumThreads |->
                         [op |-> "none", arg |-> [none |-> TRUE],
                          seen |-> [none |-> TRUE], owned |-> {}]]

\* The backing allocation of the lone PageSuballocator: BackingPages pages of
\* device memory starting at byte offset of some larger allocation.
BackingAllocation(offset, page_size) ==
    AllocationNew(DeviceMemoryNew(TheMemory), 0, offset, BackingPages * page_size,
                  Requirements(BackingPages * page_size, 1, 0), 1)

NoCall == [op |-> "none", status |-> "ok", why |-> "", size |-> 0, alignment |-> 1,
           val |-> NoAllocation]

\* The PageSuballocator of a specification that does not use one.
InitSubUnused ==
    /\ suballocator = ForAllocation(BackingAllocation(0, 1), 1)
    /\ live = EmptyBag
    /\ sub_last = NoCall

NoPoolCall == [op |-> "none", status |-> "ok", why |-> Why(""),
               req |-> Requirements(0, 1, 0), chunk_requested |-> FALSE]

\* allocs: the requests of the allocate calls made so far, in order; frees:
\* the bag of the memory type indices of the allocations freed so far.
NoTraceCall == [op |-> "none", status |-> "ok", req |-> Requirements(0, 1, 0),
                val |-> NoAllocation, allocs |-> <<>>, frees |-> EmptyBag]

\* The pool of a specification that does not use one.
InitPoolUnused ==
    /\ front = "typed"
    /\ typed_pools = EmptyMap
    /\ pool_live = EmptyBag
    /\ pool_last = NoPoolCall

\* The TraceAllocator of a specification that does not use one.
InitTraceUnused ==
    /\ trace = TraceAllocatorNew
    /\ trace_live = EmptyBag
    /\ trace_last = NoTraceCall

\* The routing allocator of a specification that does not use one.
NoRouteCall ==
    [op |-> "none", status |-> "ok", to |-> "", served_by |-> "",
     req |-> Requirements(0, 1, 0), val |-> NoAllocation, calls |-> 0]

InitRouteUnused ==
    /\ router = [kind |-> "none"]
    /\ route_live = EmptyBag
    /\ route_last = NoRouteCall

\* The PageArena of a specification that does not use one on its own.
\* arena_last: the call (op, arg), its outcome (kind, index), and for a
\* free_chunk into the run that the call before it allocated (undoes) the
\* arena as it was before that run was allocated (origin).
NoArenaCall ==
    [op |-> "none", kind |-> "ok", arg |-> 0, index |-> 0,
     before |-> PageArenaNew(0), undoes |-> FALSE, origin |-> PageArenaNew(0)]

InitArenaUnused ==
    /\ page_arena = PageArenaNew(0)
    /\ arena_last = NoArenaCall

InitMap ==
    /\ InitDeviceMemory
    /\ debug_build = FALSE
    /\ InitSubUnused
    /\ InitPoolUnused
    /\ inner = InnerNew("fake")
    /\ InitTraceUnused
    /\ InitRouteUnused
    /\ InitArenaUnused

\* allocation.map(device), vkMapMemory answering r if it is called
MapCall(h, r) ==
    LET c == CellOf(h)
        res == AllocationMap(MapHandles[h], mapped[c], r)
    IN /\ mapped[c].map_count < MaxMapCount
       /\ mapped' = [mapped EXCEPT ![c] = res.lock]
       /\ api_mapped' = ApiAfter(api_mapped, res.api, res.ok)
       /\ api_misuse' = (api_misuse \/ ApiMisused(api_mapped, res.api))
       /\ hist' = Remember(Completed("map", h, res, mapped[c]))
       /\ UNCHANGED <<concVars, subVars, poolVars, inner, traceVars,
                 router, route_live, route_last, page_arena, arena_last>>

\* allocation.unmap(device)
UnmapCall(h) ==
    LET c == CellOf(h)
        res == AllocationUnmap(MapHandles[h], mapped[c])
    IN /\ mapped' = [mapped EXCEPT ![c] = res.lock]
       /\ api_mapped' = ApiAfter(api_mapped, res.api, res.ok)
       /\ api_misuse' = (api_misuse \/ ApiMisused(api_mapped, res.api))
       /\ hist' = Remember(Completed("unmap", h, res, mapped[c]))
       /\ UNCHANGED <<concVars, subVars, poolVars, inner, traceVars,
                 router, route_live, route_last, page_arena, arena_last>>

NextMap ==
    \/ \E h \in HandleNames, r \in ApiOutcomes : MapCall(h, r)
    \/ \E h \in HandleNames : UnmapCall(h)

SpecMap == InitMap /\ [][NextMap]_vars


-----------------------------------------------------------------------------
(* SpecConc: threads calling map / unmap on clones of one DeviceMemory *)

Threads == 1..NumThreads

\* The MappedPtr every clone shares.
TheCell == DeviceMemoryNew(TheMemory).shared

RECURSIVE SumHeld(_, _)
SumHeld(f, n) == IF n = 0 THEN 0 ELSE f[n] + SumHeld(f, n - 1)

\* A bug: the state is read without taking the mutex.
LockIsFreeUnsynchronized(t) == TRUE

\* self.shared_mapped_ptr.lock() returns only while no other thread holds
\* the guard.
LockIsFree(t) == mutex = 0

\* map: let mut lock = self.shared_mapped_ptr.lock().unwrap();
MapLock(t) ==
    /\ pc[t] = "idle"
    /\ mapped[TheCell].map_count < MaxMapCount
    /\ LockIsFree(t)
    /\ mutex' = t
    /\ pc' = [pc EXCEPT ![t] = "map_locked"]
    /\ UNCHANGED <<dmVars, held, unmap_while_held, shared_call, subVars, poolVars, inner,
                 traceVars,
                 router, route_live, route_last, page_arena, arena_last>>

\* map: if lock.map_count == 0 { lock.host_accessible_ptr = map_memory(..)? }
MapCheck(t, r) ==
    /\ pc[t] = "map_locked"
    /\ IF mapped[TheCell].map_count = 0
       THEN /\ api_misuse' = (api_misuse \/ ApiMisused(api_mapped, "map"))
            /\ api_mapped' = ApiAfter(api_mapped, "map", r.ok)
            /\ IF r.ok
               THEN /\ mapped' = [mapped EXCEPT ![TheCell].host_accessible_ptr = r.ptr]
                    /\ pc' = [pc EXCEPT ![t] = "map_inc"]
                    /\ UNCHANGED mutex
               ELSE \* the ? returns the error; the guard is dropped
                    /\ pc' = [pc EXCEPT ![t] = "idle"]
                    /\ mutex' = IF mutex = t THEN 0 ELSE mutex
                    /\ UNCHANGED mapped
       ELSE /\ pc' = [pc EXCEPT ![t] = "map_inc"]
            /\ UNCHANGED <<mapped, api_mapped, api_misuse, mutex>>
    /\ UNCHANGED <<hist, held, unmap_while_held, shared_call, subVars, poolVars, inner,
                 traceVars,
                 router, route_live, route_last, page_arena, arena_last>>

\* map: lock.map_count += 1; Ok(lock.host_accessible_ptr), dropping the guard
MapInc(t) ==
    /\ pc[t] = "map_inc"
    /\ mapped' = [mapped EXCEPT ![TheCell].map_count = @ + 1]
    /\ held' = [held EXCEPT ![t] = @ + 1]
    /\ mutex' = IF mutex = t THEN 0 ELSE mutex
    /\ pc' = [pc EXCEPT ![t] = "idle"]
    /\ UNCHANGED <<api_mapped, api_misuse, hist, unmap_while_held, shared_call, subVars, poolVars, inner,
                 traceVars,
                 router, route_live, route_last, page_arena, arena_last>>

\* unmap: let mut lock = self.shared_mapped_ptr.lock().unwrap();
\* a thread unmaps only what it has mapped itself.
UnmapLock(t) ==
    /\ pc[t] = "idle"
    /\ held[t] > 0
    /\ LockIsFree(t)
    /\ mutex' = t
    /\ pc' = [pc EXCEPT ![t] = "unmap_locked"]
    /\ UNCHANGED <<dmVars, held, unmap_while_held, shared_call, subVars, poolVars, inner,
                 traceVars,
                 router, route_live, route_last, page_arena, arena_last>>

\* unmap: the map_count == 0 / map_count == 1 branches
UnmapCheck(t) ==
    /\ pc[t] = "unmap_locked"
    /\ IF mapped[TheCell].map_count = 0
       THEN /\ pc' = [pc EXCEPT ![t] = "idle"]
            /\ mutex' = IF mutex = t THEN 0 ELSE mutex
            /\ held' = [held EXCEPT ![t] = @ - 1]
            /\ UNCHANGED <<mapped, api_mapped, api_misuse, unmap_while_held>>
       ELSE /\ IF mapped[TheCell].map_count = 1
               THEN /\ api_misuse' = (api_misuse \/ ApiMisused(api_mapped, "unmap"))
                    /\ api_mapped' = ApiAfter(api_mapped, "unmap", TRUE)
                    /\ unmap_while_held' =
                          (unmap_while_held \/ \E u \in Threads \ {t} : held[u] > 0)
                    /\ mapped' = [mapped EXCEPT ![TheCell].host_accessible_ptr = NullPtr]
               ELSE UNCHANGED <<mapped, api_mapped, api_misuse, unmap_while_held>>
            /\ pc' = [pc EXCEPT ![t] = "unmap_dec"]
            /\ UNCHANGED <<mutex, held>>
    /\ UNCHANGED <<hist, shared_call, subVars, poolVars, inner,
                 traceVars,
                 router, route_live, route_last, page_arena, arena_last>>

\* unmap: lock.map_count -= 1; Ok(()), dropping the guard
UnmapDec(t) ==
    /\ pc[t] = "unmap_dec"
    /\ mapped[TheCell].map_count > 0
    /\ mapped' = [mapped EXCEPT ![TheCell].map_count = @ - 1]
    /\ held' = [held EXCEPT ![t] = @ - 1]
    /\ mutex' = IF mutex = t THEN 0 ELSE mutex
    /\ pc' = [pc EXCEPT ![t] = "idle"]
    /\ UNCHANGED <<api_mapped, api_misuse, hist, unmap_while_held, shared_call, subVars, poolVars, inner,
                 traceVars,
                 router, route_live, route_last, page_arena, arena_last>>

NextConc ==
    \/ \E t \in Threads : MapLock(t)
    \/ \E t \in Threads, r \in ApiOutcomes : MapCheck(t, r)
    \/ \E t \in Threads : MapInc(t)
    \/ \E t \in Threads : UnmapLock(t)
    \/ \E t \in Threads : UnmapCheck(t)
    \/ \E t \in Threads : UnmapDec(t)

SpecConc == InitMap /\ [][NextConc]_vars

-----------------------------------------------------------------------------
(* SpecSub: one PageSuballocator, its caller allocating and freeing *)

\* Byte offsets of the backing allocation inside its device memory.
BackingOffsets == {0, 2, 3}

\* Page sizes of the suballocator.
PageSizes == {1, 2}

\* Alignments a caller requests (powers of two).
Alignments == {1, 2, 4}

Sizes == 0..MaxSize

InitSub ==
    /\ InitDeviceMemory
    /\ debug_build \in BOOLEAN
    /\ \E offset \in BackingOffsets, page_size \in PageSizes :
          suballocator = ForAllocation(BackingAllocation(offset, page_size), page_size)
    /\ live = EmptyBag
    /\ sub_last = NoCall
    /\ InitPoolUnused
    /\ inner = InnerNew("fake")
    /\ InitTraceUnused
    /\ InitRouteUnused
    /\ InitArenaUnused

\* A panic unwinds out of the caller: nothing runs after it.
Running == sub_last.status # "panic"

\* suballocator.allocate(size, alignment)
SubAllocate(size, alignment) ==
    LET r == PSAllocate(suballocator, size, alignment, debug_build) IN
    /\ Running
    /\ suballocator' = r.ps
    /\ live' = IF r.status = "ok" THEN live (+) SetToBag({r.val}) ELSE live
    /\ sub_last' = [op |-> "allocate", status |-> r.status, why |-> r.why,
                    size |-> size, alignment |-> alignment, val |-> r.val]
    /\ UNCHANGED <<dmVars, concVars, debug_build, poolVars, inner, traceVars,
                 router, route_live, route_last, page_arena, arena_last>>

\* suballocator.free(a), for a sub-allocation returned earlier and not yet
\* freed
SubFree(a) ==
    LET r == PSFree(suballocator, a, debug_build) IN
    /\ Running
    /\ BagIn(a, live)
    /\ suballocator' = r.ps
    /\ live' = live (-) SetToBag({a})
    /\ sub_last' = [op |-> "free", status |-> r.status, why |-> "",
                    size |-> a.size_in_bytes, alignment |-> 1, val |-> a]
    /\ UNCHANGED <<dmVars, concVars, debug_build, poolVars, inner, traceVars,
                 router, route_live, route_last, page_arena, arena_last>>

\* suballocator.free(b), for an allocation b of another device memory that
\* has the offset and the size of a live sub-allocation a
SubFreeForeign(a) ==
    LET b == [a EXCEPT !.device_memory.memory = TheMemory + 1]
        r == PSFree(suballocator, b, debug_build) IN
    /\ Running
    /\ BagIn(a, live)
    /\ suballocator' = r.ps
    /\ sub_last' = [op |-> "free", status |-> r.status, why |-> "",
                    size |-> b.size_in_bytes, alignment |-> 1, val |-> b]
    /\ UNCHANGED <<dmVars, concVars, debug_build, live, poolVars, inner, traceVars,
                 router, route_live, route_last, page_arena, arena_last>>

NextSub ==
    \/ \E size \in Sizes, alignment \in Alignments : SubAllocate(size, alignment)
    \/ \E a \in BagToSet(live) : SubFree(a)
    \/ \E a \in BagToSet(live) : SubFreeForeign(a)

SpecSub == InitSub /\ [][NextSub]_vars

-----------------------------------------------------------------------------
(* SpecPool: a MemoryTypePoolAllocator or a PoolAllocator, its caller          *)
(* allocating and freeing                                                     *)

\* The memory types of the device, and the type of the lone pool.
MemoryTypes == {0, 1}
LoneType == 0

\* chunk_size and page_size of the pools.
PoolConfigs == {[chunk_size |-> 4, page_size |-> 1],
                [chunk_size |-> 6, page_size |-> 2],
                [chunk_size |-> 2, page_size |-> 2]}

InnerKinds == {"fake", "device"}

InitPool ==
    /\ InitDeviceMemory
    /\ debug_build \in BOOLEAN
    /\ InitSubUnused
    /\ front \in {"typed", "pool"}
    /\ \E cfg \in PoolConfigs :
          typed_pools = PoolAllocatorNew(IF front = "pool" THEN MemoryTypes
                                         ELSE {LoneType},
                                         cfg.chunk_size, cfg.page_size)
    /\ inner \in {InnerNew(kind) : kind \in InnerKinds}
    /\ pool_live = EmptyBag
    /\ pool_last = NoPoolCall
    /\ InitTraceUnused
    /\ InitRouteUnused
    /\ InitArenaUnused

PoolRunning == pool_last.status # "panic"

\* allocate(req) on the allocator the caller holds
FrontAllocate(req, api_ok) ==
    IF front = "pool"
    THEN PoolAllocatorAllocate(typed_pools, inner, req, api_ok, debug_build)
    ELSE {[status |-> o.status, why |-> o.why,
           typed_pools |-> [typed_pools EXCEPT ![LoneType] = o.p],
           inner |-> o.inner, val |-> o.val,
           chunk_requested |-> o.chunk_requested] :
             o \in MTPAllocate(typed_pools[LoneType], inner, req, api_ok, debug_build)}

\* free(allocation) on the allocator the caller holds
FrontFree(allocation) ==
    IF front = "pool"
    THEN PoolAllocatorFree(typed_pools, inner, allocation, debug_build)
    ELSE LET r == MTPFree(typed_pools[LoneType], inner, allocation, debug_build)
         IN [status |-> r.status, freed |-> r.freed,
             typed_pools |-> [typed_pools EXCEPT ![LoneType] = r.p],
             inner |-> r.inner]

PoolAllocate(size, alignment, mtype, api_ok) ==
    LET req == Requirements(size, alignment, mtype) IN
    \E o \in FrontAllocate(req, api_ok) :
        /\ PoolRunning
        /\ BagCardinality(pool_live) < MaxLive
        /\ o.inner.allocation_count <= MaxChunks
        /\ typed_pools' = o.typed_pools
        /\ inner' = o.inner
        /\ pool_live' = IF o.status = "ok" THEN pool_live (+) SetToBag({o.val})
                        ELSE pool_live
        /\ pool_last' = [op |-> "allocate", status |-> o.status, why |-> o.why,
                         req |-> req, chunk_requested |-> o.chunk_requested]
        /\ UNCHANGED <<dmVars, concVars, subVars, front, traceVars,
                 router, route_live, route_last, page_arena, arena_last>>

PoolFree(a) ==
    LET r == FrontFree(a) IN
    /\ PoolRunning
    /\ BagIn(a, pool_live)
    /\ typed_pools' = r.typed_pools
    /\ inner' = r.inner
    /\ pool_live' = pool_live (-) SetToBag({a})
    /\ pool_last' = [op |-> "free", status |-> r.status, why |-> Why(r.freed),
                     req |-> a.allocation_requirements, chunk_requested |-> FALSE]
    /\ UNCHANGED <<dmVars, concVars, subVars, front, traceVars,
                 router, route_live, route_last, page_arena, arena_last>>

NextPool ==
    \/ \E size \in Sizes, alignment \in Alignments, mtype \in MemoryTypes,
          api_ok \in ApiAnswers(inner) : PoolAllocate(size, alignment, mtype, api_ok)
    \/ \E a \in BagToSet(pool_live) : PoolFree(a)

SpecPool == InitPool /\ [][NextPool]_vars

-----------------------------------------------------------------------------
(* SpecTrace: a TraceAllocator around the inner allocator, its caller          *)
(* allocating and freeing                                                     *)

InitTrace ==
    /\ InitDeviceMemory
    /\ debug_build \in BOOLEAN
    /\ InitSubUnused
    /\ InitPoolUnused
    /\ inner \in {InnerNew(kind) : kind \in InnerKinds}
    /\ trace = TraceAllocatorNew
    /\ trace_live = EmptyBag
    /\ trace_last = NoTraceCall
    /\ InitRouteUnused
    /\ InitArenaUnused

TraceRunning == trace_last.status # "panic"

\* allocate(req); the decorator and the allocators under it do not read
\* req.alignment
TraceAllocateCall(size, mtype, api_ok) ==
    LET req == Requirements(size, 1, mtype)
        r == TraceAllocate(trace, inner, req, api_ok)
    IN /\ TraceRunning
       /\ trace.total.total_allocations < MaxTraceCalls
       /\ trace' = r.trace
       /\ inner' = r.inner
       /\ trace_live' = IF r.status = "ok" THEN trace_live (+) SetToBag({r.val})
                        ELSE trace_live
       /\ trace_last' = [op |-> "allocate", status |-> r.status, req |-> req,
                         val |-> r.val, allocs |-> Append(trace_last.allocs, req),
                         frees |-> trace_last.frees]
       /\ UNCHANGED <<dmVars, concVars, subVars, poolVars,
                   router, route_live, route_last, page_arena, arena_last>>

TraceFreeCall(a) ==
    LET r == TraceFree(trace, inner, a, debug_build) IN
    /\ TraceRunning
    /\ BagIn(a, trace_live)
    /\ trace' = r.trace
    /\ inner' = r.inner
    /\ trace_live' = trace_live (-) SetToBag({a})
    /\ trace_last' = [op |-> "free", status |-> r.status,
                      req |-> a.allocation_requirements, val |-> a,
                      allocs |-> trace_last.allocs,
                      frees |-> trace_last.frees
                                  (+) SetToBag({a.memory_type_index})]
    /\ UNCHANGED <<dmVars, concVars, subVars, poolVars,
                   router, route_live, route_last, page_arena, arena_last>>

NextTrace ==
    \/ \E size \in Sizes, mtype \in MemoryTypes, api_ok \in ApiAnswers(inner) :
          TraceAllocateCall(size, mtype, api_ok)
    \/ \E a \in BagToSet(trace_live) : TraceFreeCall(a)

SpecTrace == InitTrace /\ [][NextTrace]_vars

-----------------------------------------------------------------------------
(* SpecRoute: a SizedAllocator or a DedicatedAllocator over two allocators,    *)
(* its caller allocating and freeing                                          *)

\* The size_trigger values tried.
SizeTriggers == {2, 3}

\* A terminal allocator, or PoolAllocator::new(.., chunk_size 6, page_size 2,
\* terminal allocator)
SideNew(kind, inner_kind) ==
    [kind |-> kind,
     typed_pools |-> PoolAllocatorNew(IF kind = "pool" THEN MemoryTypes ELSE {},
                                      6, 2),
     inner |-> InnerNew(inner_kind)]

InitRoute ==
    /\ InitDeviceMemory
    /\ debug_build \in BOOLEAN
    /\ InitSubUnused
    /\ InitPoolUnused
    /\ inner = InnerNew("fake")
    /\ InitTraceUnused
    /\ \/ \E size_trigger \in SizeTriggers, small, large \in {"leaf", "pool"} :
             /\ "leaf" \in {small, large}
             /\ router = [kind |-> "sized",
                       size_trigger |-> size_trigger,
                       small_allocator |-> SideNew(small, "fake"),
                       large_allocator |-> SideNew(large, "fake")]
       \/ \E general \in {"leaf", "pool"}, device \in InnerKinds :
             router = [kind |-> "dedicated",
                       allocator |-> SideNew(general, "fake"),
                       device_allocator |-> SideNew("leaf", device)]
    /\ route_live = EmptyBag
    /\ route_last = NoRouteCall
    /\ InitArenaUnused

RouteRunning == route_last.status # "panic"

\* The two allocators the routing allocator owns
Sides == IF router.kind = "sized" THEN {"small_allocator", "large_allocator"}
         ELSE {"allocator", "device_allocator"}

\* allocate(req) on the routing allocator
RouteAllocate(req, api_ok) ==
    \E o \in IF router.kind = "sized"
              THEN SizedAllocate(router, req, api_ok, debug_build)
              ELSE DedicatedAllocate(router, req, api_ok, debug_build) :
        /\ RouteRunning
        /\ route_last.calls < MaxRouteCalls
        /\ BagCardinality(route_live) < MaxLive
        /\ \A side \in Sides : o.router[side].inner.allocation_count <= MaxChunks
        /\ router' = o.router
        /\ route_live' = IF o.status = "ok"
                         THEN route_live (+) SetToBag({[val |-> o.val,
                                                        served_by |-> o.to]})
                         ELSE route_live
        /\ route_last' = [op |-> "allocate", status |-> o.status, to |-> o.to,
                          served_by |-> o.to, req |-> req, val |-> o.val,
                          calls |-> route_last.calls + 1]
        /\ UNCHANGED <<dmVars, concVars, subVars, poolVars, inner, traceVars,
                       page_arena, arena_last>>

\* free(allocation) of an allocation the routing allocator returned
RouteFree(a) ==
    \E r \in {IF router.kind = "sized"
               THEN SizedFree(router, a.val, debug_build)
               ELSE DedicatedFree(router, a.val, debug_build)} :
    /\ RouteRunning
    /\ route_last.calls < MaxRouteCalls
    /\ BagIn(a, route_live)
    /\ router' = [router EXCEPT ![r.to] = [kind |-> @.kind,
                                           typed_pools |-> r.freed.typed_pools,
                                           inner |-> r.freed.inner]]
    /\ route_live' = route_live (-) SetToBag({a})
    /\ route_last' = [op |-> "free", status |-> r.freed.status, to |-> r.to,
                      served_by |-> a.served_by,
                      req |-> a.val.allocation_requirements, val |-> a.val,
                      calls |-> route_last.calls + 1]
    /\ UNCHANGED <<dmVars, concVars, subVars, poolVars, inner, traceVars,
                   page_arena, arena_last>>

\* The requests the caller draws from: a SizedAllocator reads size and
\* alignment, a DedicatedAllocator the two dedicated-allocation flags.
RouteRequests ==
    IF router.kind = "sized"
    THEN {Requirements(size, alignment, mtype) :
            size \in 1..MaxSize, alignment \in Alignments, mtype \in MemoryTypes}
    ELSE UNION {{[Requirements(1, alignment, mtype) EXCEPT
                     !.prefers_dedicated_allocation = prefers,
                     !.requires_dedicated_allocation = requires,
                     !.dedicated_resource_handle = resource] :
                   alignment \in {1, 4}, mtype \in MemoryTypes,
                   resource \in {[kind |-> "None", handle |-> 0],
                                 [kind |-> "Image", handle |-> 7]}} :
                 prefers, requires \in BOOLEAN}

NextRoute ==
    \/ \E req \in RouteRequests :
          \E api_ok \in ApiAnswers(router[IF router.kind = "sized"
                                          THEN SizedRoute(router.size_trigger, req)
                                          ELSE DedicatedRoute(req)].inner) :
             RouteAllocate(req, api_ok)
    \/ \E a \in BagToSet(route_live) : RouteFree(a)

SpecRoute == InitRoute /\ [][NextRoute]_vars

-----------------------------------------------------------------------------
(* SpecArena: a PageArena, its caller allocating and freeing chunks           *)

InitArena ==
    /\ InitDeviceMemory
    /\ debug_build \in BOOLEAN
    /\ InitSubUnused
    /\ InitPoolUnused
    /\ inner = InnerNew("fake")
    /\ InitTraceUnused
    /\ InitRouteUnused
    /\ page_arena = PageArenaNew(BackingPages)
    /\ arena_last = NoArenaCall

\* arena.allocate_chunk(page_count)
ArenaAllocateChunk(page_count) ==
    LET r == AllocateChunk(page_arena, page_count, debug_build) IN
    /\ arena_last.kind # "panic"
    /\ page_arena' = r.arena
    /\ arena_last' = [op |-> "allocate_chunk", kind |-> r.kind, arg |-> page_count,
                      index |-> r.index, before |-> page_arena,
                      undoes |-> FALSE, origin |-> PageArenaNew(0)]
    /\ UNCHANGED <<dmVars, concVars, subVars, poolVars, inner, traceVars,
                   router, route_live, route_last>>

\* arena.free_chunk(index)
ArenaFreeChunk(index) ==
    LET r == FreeChunk(page_arena, index, debug_build)
        undoes == /\ arena_last.op = "allocate_chunk"
                  /\ arena_last.kind = "some"
                  /\ index >= arena_last.index
                  /\ index < arena_last.index + arena_last.arg
    IN
    /\ arena_last.kind # "panic"
    /\ page_arena' = r.arena
    /\ arena_last' = [op |-> "free_chunk", kind |-> r.kind, arg |-> index,
                      index |-> index, before |-> page_arena,
                      undoes |-> undoes,
                      origin |-> IF undoes THEN arena_last.before
                                 ELSE PageArenaNew(0)]
    /\ UNCHANGED <<dmVars, concVars, subVars, poolVars, inner, traceVars,
                   router, route_live, route_last>>

NextArena ==
    \/ \E page_count \in 0..(BackingPages + 1) : ArenaAllocateChunk(page_count)
    \/ \E index \in 0..BackingPages : ArenaFreeChunk(index)

SpecArena == InitArena /\ [][NextArena]_vars

-----------------------------------------------------------------------------
(* SpecTests: the allocators of the tests, with the tests' numbers; the       *)
(* requests of a test are made once each, in any order, between frees         *)

\* The requests of a test, by the allocator it holds: test_multiple_allocations
\* with one more small request, test_allocate_and_free of the PoolAllocator,
\* and the requests made of a PageSuballocator of 100 pages of 4 bytes.
TestPlan(held_allocator) ==
    IF held_allocator = "typed"
    THEN <<Requirements(64, 2, 0), Requirements(64, 2, 0),
           Requirements(416, 32, 0), Requirements(64, 2, 0)>>
    ELSE IF held_allocator = "pool"
    THEN <<Requirements(32, 1, 0), Requirements(32, 1, 0), Requirements(32, 1, 1)>>
    ELSE IF held_allocator = "bytes"
    THEN <<Requirements(80, 4, 0), Requirements(240, 4, 0), Requirements(68, 4, 0),
           Requirements(10, 4, 0)>>
    ELSE <<Requirements(80, 4, 0), Requirements(240, 4, 0), Requirements(68, 4, 0),
           Requirements(12, 4, 0), Requirements(16, 4, 0)>>

\* MemoryTypePoolAllocator::new(0, 512, 8, fake), PoolAllocator::new(two memory
\* types, 64, 1, fake), or PageSuballocator::for_allocation(400 bytes, 4) and
\* PageSuballocator::for_allocation(400 bytes, 1)
InitTests ==
    /\ InitDeviceMemory
    /\ debug_build \in BOOLEAN
    /\ front \in {"typed", "pool", "suballocator", "bytes"}
    /\ typed_pools = IF front = "typed" THEN PoolAllocatorNew({LoneType}, 512, 8)
                     ELSE IF front = "pool" THEN PoolAllocatorNew(MemoryTypes, 64, 1)
                     ELSE EmptyMap
    /\ suballocator =
          IF front \in {"suballocator", "bytes"}
          THEN ForAllocation(AllocationNew(DeviceMemoryNew(TheMemory), 0, 0, 400,
                                           Requirements(400, 1, 0), 1),
                             IF front = "bytes" THEN 1 ELSE 4)
          ELSE ForAllocation(BackingAllocation(0, 1), 1)
    /\ live = EmptyBag
    /\ sub_last = NoCall
    /\ inner = InnerNew("fake")
    /\ pool_live = EmptyBag
    /\ pool_last = NoPoolCall
    /\ InitTraceUnused
    /\ InitRouteUnused
    /\ InitArenaUnused

\* The request is one the test has still to make.
ToMake(req) ==
    Cardinality({i \in DOMAIN hist : hist[i].op = "allocate" /\ hist[i].req = req})
        < Cardinality({j \in DOMAIN TestPlan(front) : TestPlan(front)[j] = req})

\* allocator.allocate(req) of a pool test
TestPoolAllocate(req) ==
    /\ front \in {"typed", "pool"}
    /\ ToMake(req)
    /\ \E o \in FrontAllocate(req, TRUE) :
        /\ PoolRunning
        /\ typed_pools' = o.typed_pools
        /\ inner' = o.inner
        /\ pool_live' = IF o.status = "ok" THEN pool_live (+) SetToBag({o.val})
                        ELSE pool_live
        /\ pool_last' = [op |-> "allocate", status |-> o.status, why |-> o.why,
                         req |-> req, chunk_requested |-> o.chunk_requested]
        /\ hist' = Append(hist, [op |-> "allocate", req |-> req,
                                 status |-> o.status, val |-> o.val])
        /\ UNCHANGED <<mapped, api_mapped, api_misuse, concVars, subVars, front,
                       traceVars, router, route_live, route_last, page_arena,
                       arena_last>>

\* allocator.free(a) of a pool test
TestPoolFree(a) ==
    /\ front \in {"typed", "pool"}
    /\ BagIn(a, pool_live)
    /\ \E r \in {FrontFree(a)} :
        /\ PoolRunning
        /\ typed_pools' = r.typed_pools
        /\ inner' = r.inner
        /\ pool_live' = pool_live (-) SetToBag({a})
        /\ pool_last' = [op |-> "free", status |-> r.status, why |-> Why(r.freed),
                         req |-> a.allocation_requirements,
                         chunk_requested |-> FALSE]
        /\ hist' = Append(hist, [op |-> "free", req |-> a.allocation_requirements,
                                 status |-> r.status, val |-> a])
        /\ UNCHANGED <<mapped, api_mapped, api_misuse, concVars, subVars, front,
                       traceVars, router, route_live, route_last, page_arena,
                       arena_last>>

\* suballocator.allocate(size, alignment) of a suballocator test
TestSubAllocate(req) ==
    /\ front \in {"suballocator", "bytes"}
    /\ ToMake(req)
    /\ \E r \in {PSAllocate(suballocator, req.size_in_bytes, req.alignment,
                             debug_build)} :
        /\ Running
        /\ suballocator' = r.ps
        /\ live' = IF r.status = "ok" THEN live (+) SetToBag({r.val}) ELSE live
        /\ sub_last' = [op |-> "allocate", status |-> r.status, why |-> r.why,
                        size |-> req.size_in_bytes, alignment |-> req.alignment,
                        val |-> r.val]
        /\ hist' = Append(hist, [op |-> "allocate", req |-> req,
                                 status |-> r.status, val |-> r.val])
        /\ UNCHANGED <<mapped, api_mapped, api_misuse, concVars, debug_build,
                       poolVars, inner, traceVars, router, route_live, route_last,
                       page_arena, arena_last>>

\* suballocator.free(a) of the test over pages of 1 byte, which frees once
\* it has made its requests
TestSubFree(a) ==
    /\ front = "bytes"
    /\ \A j \in DOMAIN TestPlan(front) : ~ToMake(TestPlan(front)[j])
    /\ BagIn(a, live)
    /\ \E r \in {PSFree(suballocator, a, debug_build)} :
        /\ Running
        /\ suballocator' = r.ps
        /\ live' = live (-) SetToBag({a})
        /\ sub_last' = [op |-> "free", status |-> r.status, why |-> "",
                        size |-> a.size_in_bytes, alignment |-> 1, val |-> a]
        /\ hist' = Append(hist, [op |-> "free", req |-> a.allocation_requirements,
                                 status |-> r.status, val |-> a])
        /\ UNCHANGED <<mapped, api_mapped, api_misuse, concVars, debug_build,
                       poolVars, inner, traceVars, router, route_live, route_last,
                       page_arena, arena_last>>

NextTests ==
    \/ \E j \in DOMAIN TestPlan(front) : TestPoolAllocate(TestPlan(front)[j])
    \/ \E a \in BagToSet(pool_live) : TestPoolFree(a)
    \/ \E j \in DOMAIN TestPlan(front) : TestSubAllocate(TestPlan(front)[j])
    \/ \E a \in BagToSet(live) : TestSubFree(a)

SpecTests == InitTests /\ [][NextTests]_vars

-----------------------------------------------------------------------------
(* SpecShared: threads, each driving a pool, calling allocate / free on the    *)
(* clones of one Arc<Mutex<FakeAllocator>>                                     *)

\* into_shared(FakeAllocator::default()), a clone with every pool
InitShared ==
    /\ InitDeviceMemory
    /\ debug_build = FALSE
    /\ InitSubUnused
    /\ InitPoolUnused
    /\ inner = InnerNew("fake")
    /\ InitTraceUnused
    /\ InitRouteUnused
    /\ InitArenaUnused

\* self.lock().unwrap() of allocate (arg: the chunk requirements of the
\* thread's pool) or of free (arg: a chunk the pool holds); the guard lives
\* until the call on the allocator has returned.
SharedLock(t, op, arg) ==
    /\ pc[t] = "idle"
    /\ Len(hist) + Cardinality({u \in Threads : pc[u] # "idle"}) < HistLen
    /\ LockIsFree(t)
    /\ mutex' = t
    /\ pc' = [pc EXCEPT ![t] = "shared_locked"]
    /\ shared_call' = [shared_call EXCEPT ![t].op = op, ![t].arg = arg,
                                          ![t].owned = @ \ {arg}]
    /\ UNCHANGED <<dmVars, held, unmap_while_held, subVars, poolVars, inner,
                   traceVars, router, route_live, route_last, page_arena,
                   arena_last>>

\* The call on the allocator behind the guard begins: it reads the
\* allocator's fields.
SharedEnter(t) ==
    /\ pc[t] = "shared_locked"
    /\ pc' = [pc EXCEPT ![t] = "shared_body"]
    /\ shared_call' = [shared_call EXCEPT ![t].seen = inner]
    /\ UNCHANGED <<dmVars, mutex, held, unmap_while_held, subVars, poolVars, inner,
                   traceVars, router, route_live, route_last, page_arena,
                   arena_last>>

\* The call writes the fields and returns; the guard is dropped.
SharedReturn(t) ==
    /\ pc[t] = "shared_body"
    /\ \E r \in {IF shared_call[t].op = "allocate"
                  THEN FakeAllocate(shared_call[t].seen, shared_call[t].arg)
                  ELSE [val |-> NoAllocation]
                          @@ FakeFree(shared_call[t].seen, shared_call[t].arg,
                                      debug_build)} :
          /\ inner' = r.inner
          /\ shared_call' = [shared_call EXCEPT
                                ![t].owned = IF shared_call[t].op = "allocate"
                                             THEN @ \cup {r.val} ELSE @]
    /\ hist' = Append(hist, [op |-> shared_call[t].op, thread |-> t,
                             arg |-> shared_call[t].arg])
    /\ mutex' = IF mutex = t THEN 0 ELSE mutex
    /\ pc' = [pc EXCEPT ![t] = "idle"]
    /\ UNCHANGED <<mapped, api_mapped, api_misuse, held, unmap_while_held, subVars,
                   poolVars, traceVars, router, route_live, route_last, page_arena,
                   arena_last>>

NextShared ==
    \/ \E t \in Threads :
          \/ SharedLock(t, "allocate", Requirements(4, 1, t - 1))
          \/ \E a \in shared_call[t].owned : SharedLock(t, "free", a)
    \/ \E t \in Threads : SharedEnter(t)
    \/ \E t \in Threads : SharedReturn(t)

SpecShared == InitShared /\ [][NextShared]_vars

-----------------------------------------------------------------------------
(* SpecSystem: the allocator of create_system_allocator, its caller allocating *)
(* and freeing.  Level 1 is the small SizedAllocator, which the               *)
(* DedicatedAllocator owns; levels 2 and 3 are the medium and the large       *)
(* SizedAllocator and level 4 the device allocator, each behind an            *)
(* Arc<Mutex<..>>.  The two TraceAllocators hand requests on as they are.     *)

\* The level whose clone a level holds as the inner allocator of its pool and
\* as its large allocator
InnerOfLevelBack(n) == IF n = 3 THEN 2 ELSE n + 1

InnerOfLevel(n) == n + 1

\* What a call does on its way: at "lock", it locks the mutex of the level,
\* holding the mutexes of locked; at "pool", the request reaches the
\* MemoryTypePoolAllocator of the level; at "chunk", that pool asks its inner
\* allocator for a chunk; at "device", the DeviceAllocator is called.
Passed(at, level, req, locked) ==
    [at |-> at, level |-> level, req |-> req, held |-> locked]

RECURSIVE SystemAllocate(_, _, _, _, _, _)
RECURSIVE SystemFree(_, _, _, _, _)

\* free(allocation) on the allocator of level n, by a caller that holds the
\* mutexes of locked: SizedAllocator::free, PoolAllocator::free and
\* MemoryTypePoolAllocator::free behind the mutex of the level, or
\* DeviceAllocator::free.  Locking a mutex the caller holds does not return.
SystemFree(sys, n, allocation, checks, locked) ==
    IF n \in locked
    THEN [status |-> "deadlock", sys |-> sys,
          events |-> <<Passed("lock", n, allocation.allocation_requirements, locked)>>]
    ELSE IF n = 4
    THEN CHOOSE f \in
           {[status |-> d.status, sys |-> [sys EXCEPT !.device = d.inner],
             events |-> <<Passed("lock", n, allocation.allocation_requirements,
                                 locked)>>] :
              d \in {DeviceFree(sys.device, allocation, checks)}} : TRUE
    ELSE CHOOSE f \in
      {IF SizedRoute(sys.levels[n].size_trigger, allocation.allocation_requirements)
             = "large_allocator"
       THEN CHOOSE g \in
              {[r EXCEPT !.events = entered \o @] :
                 r \in {SystemFree(sys, InnerOfLevel(n), allocation, checks, now)}} :
              TRUE
       ELSE IF \/ allocation.memory_type_index \notin DOMAIN sys.levels[n].typed_pools
               \/ allocation.parent_id = NoParent
               \/ allocation.parent_id \notin
                     DOMAIN sys.levels[n].typed_pools[allocation.memory_type_index].pool
       THEN [status |-> "panic", sys |-> sys, events |-> entered]
       ELSE CHOOSE g \in
              {IF freed.status = "panic"
               THEN [status |-> "panic", sys |-> sys, events |-> entered]
               ELSE IF ChunkIsSpent(freed.ps)
               THEN CHOOSE h \in
                      {[r EXCEPT !.events = entered \o @] :
                         r \in {SystemFree(
                                  [sys EXCEPT
                                     !.levels[n].typed_pools[allocation.memory_type_index]
                                        .pool = MapRemove(@, allocation.parent_id)],
                                  InnerOfLevel(n), ReleaseAllocation(freed.ps),
                                  checks, now)}} : TRUE
               ELSE [status |-> "ok",
                     sys |-> [sys EXCEPT
                                !.levels[n].typed_pools[allocation.memory_type_index]
                                   .pool[allocation.parent_id] = freed.ps],
                     events |-> entered] :
                 freed \in {PSFree(sys.levels[n]
                                     .typed_pools[allocation.memory_type_index]
                                     .pool[allocation.parent_id],
                                   allocation, checks)}} : TRUE :
         entered \in {IF n = 1 THEN <<>>
                      ELSE <<Passed("lock", n, allocation.allocation_requirements,
                                    locked)>>},
         now \in {IF n = 1 THEN locked ELSE locked \cup {n}}} : TRUE

\* The second half of MemoryTypePoolAllocator::allocate at level n: chunk is
\* what the inner allocator answered to the request for a chunk.
SystemServeFromNewChunk(chunk, n, req, checks, now) ==
    IF chunk.status # "ok"
    THEN {[status |-> chunk.status, sys |-> chunk.sys, val |-> NoAllocation,
           events |-> chunk.events]}
    ELSE {IF sub.status = "err"
          THEN CHOOSE g \in
                 {[status |-> IF freed.status = "ok" THEN "err" ELSE freed.status,
                   sys |-> freed.sys, val |-> NoAllocation,
                   events |-> chunk.events \o freed.events] :
                    freed \in {SystemFree(chunk.sys, InnerOfLevel(n),
                                          ReleaseAllocation(fresh), checks, now)}} :
                 TRUE
          ELSE IF \/ sub.status = "panic"
                  \/ checks /\ sub.val.parent_id # chunk.val.id
                  \/ checks /\ chunk.val.id \in
                        DOMAIN chunk.sys.levels[n].typed_pools[req.memory_type_index].pool
          THEN [status |-> "panic", sys |-> chunk.sys, val |-> NoAllocation,
                events |-> chunk.events]
          ELSE [status |-> "ok",
                sys |-> [chunk.sys EXCEPT
                           !.levels[n].typed_pools[req.memory_type_index].pool =
                              MapInsert(@, chunk.val.id, sub.ps)],
                val |-> sub.val,
                events |-> chunk.events] :
            fresh \in {ForAllocation(chunk.val,
                          chunk.sys.levels[n].typed_pools[req.memory_type_index]
                             .page_size)},
            sub \in {PSAllocate(ForAllocation(chunk.val,
                                   chunk.sys.levels[n]
                                      .typed_pools[req.memory_type_index].page_size),
                                req.size_in_bytes, req.alignment, checks)}}

\* allocate(req) on the allocator of level n, by a caller that holds the
\* mutexes of locked: the set of results the call can have.
\* SizedAllocator::allocate, PoolAllocator::allocate and
\* MemoryTypePoolAllocator::allocate behind the mutex of the level, or
\* DeviceAllocator::allocate.
SystemAllocate(sys, n, req, api_ok, checks, locked) ==
    IF n \in locked
    THEN {[status |-> "deadlock", sys |-> sys, val |-> NoAllocation,
           events |-> <<Passed("lock", n, req, locked)>>]}
    ELSE IF n = 4
    THEN {[status |-> d.status, sys |-> [sys EXCEPT !.device = d.inner],
           val |-> d.val,
           events |-> <<Passed("lock", n, req, locked),
                        Passed("device", n, req, locked \cup {n})>>] :
            d \in {DeviceAllocate(sys.device, req, api_ok)}}
    ELSE UNION
      {IF SizedRoute(sys.levels[n].size_trigger, req) = "large_allocator"
       THEN {[o EXCEPT !.events = entered \o @] :
               o \in SystemAllocate(sys, InnerOfLevel(n), req, api_ok, checks, now)}
       ELSE IF req.memory_type_index \notin DOMAIN sys.levels[n].typed_pools
       THEN {[status |-> "panic", sys |-> sys, val |-> NoAllocation,
              events |-> entered]}
       ELSE UNION
         {IF ~TypeMatches(p, req) \/ AlignedSize(req) >= p.chunk_size
          THEN {[status |-> "err", sys |-> sys, val |-> NoAllocation,
                 events |-> reached \o <<Passed("refused", n, req, now)>>]}
          ELSE UNION
            {IF {k \in DOMAIN p.pool : tried[k].status # "err"} # {}
             THEN {[status |-> tried[k].status,
                    sys |-> IF tried[k].status = "ok"
                            THEN [sys EXCEPT
                                    !.levels[n].typed_pools[req.memory_type_index]
                                       .pool[k] = tried[k].ps]
                            ELSE sys,
                    val |-> tried[k].val,
                    events |-> reached] :
                     k \in {k \in DOMAIN p.pool : tried[k].status # "err"}}
             ELSE UNION
               {{[o EXCEPT !.events
                      = reached \o <<Passed("chunk", n, ChunkRequirements(p, req),
                                            now)>> \o @] :
                   o \in SystemServeFromNewChunk(chunk, n, req, checks, now)} :
                  chunk \in SystemAllocate(sys, InnerOfLevel(n),
                                           ChunkRequirements(p, req), api_ok, checks,
                                           now)} :
               tried \in {[k \in DOMAIN p.pool |->
                             PSAllocate(p.pool[k], req.size_in_bytes, req.alignment,
                                        checks)]}} :
            p \in {sys.levels[n].typed_pools[req.memory_type_index]},
            reached \in {entered \o <<Passed("pool", n, req, now)>>}} :
         entered \in {IF n = 1 THEN <<>> ELSE <<Passed("lock", n, req, locked)>>},
         now \in {IF n = 1 THEN locked ELSE locked \cup {n}}}

\* create_system_allocator, with the sizes scaled down: pages of 1 byte and
\* chunks of 2 pages at the small level, and at each level above pages of
\* the chunk size below and chunks of 2 pages
InitSystem ==
    /\ InitDeviceMemory
    /\ debug_build \in BOOLEAN
    /\ InitSubUnused
    /\ InitPoolUnused
    /\ inner = InnerNew("fake")
    /\ InitTraceUnused
    /\ router = [kind |-> "system",
                 levels |-> [n \in 1..3 |->
                               [size_trigger |-> 2 ^ n,
                                typed_pools |->
                                    PoolAllocatorNew(MemoryTypes, 2 ^ n, 2 ^ (n - 1))]],
                 device |-> InnerNew("device")]
    /\ route_live = EmptyBag
    /\ route_last = [op |-> "none", status |-> "ok", req |-> Requirements(0, 1, 0),
                     val |-> NoAllocation, events |-> <<>>, calls |-> 0]
    /\ InitArenaUnused

\* allocate(req) on the DedicatedAllocator
SystemAllocateCall(req, api_ok) ==
    /\ router.kind = "system"
    /\ route_last.status \notin {"panic", "deadlock"}
    /\ route_last.calls < MaxRouteCalls
    /\ BagCardinality(route_live) < MaxLive
    /\ \E o \in SystemAllocate(router,
                                IF DedicatedRoute(req) = "device_allocator"
                                THEN 4 ELSE 1,
                                req, api_ok, debug_build, {}) :
          /\ router' = o.sys
          /\ route_live' = IF o.status = "ok"
                           THEN route_live (+) SetToBag({o.val}) ELSE route_live
          /\ route_last' = [op |-> "allocate", status |-> o.status, req |-> req,
                            val |-> o.val, events |-> o.events,
                            calls |-> route_last.calls + 1]
    /\ UNCHANGED <<dmVars, concVars, subVars, poolVars, inner, traceVars,
                   page_arena, arena_last>>

\* free(allocation) on the DedicatedAllocator, of an allocation it returned
SystemFreeCall(a) ==
    /\ router.kind = "system"
    /\ route_last.status \notin {"panic", "deadlock"}
    /\ route_last.calls < MaxRouteCalls
    /\ BagIn(a, route_live)
    /\ \E r \in {SystemFree(router,
                             IF DedicatedRoute(a.allocation_requirements)
                                  = "device_allocator"
                             THEN 4 ELSE 1,
                             a, debug_build, {})} :
          /\ router' = r.sys
          /\ route_last' = [op |-> "free", status |-> r.status,
                            req |-> a.allocation_requirements, val |-> a,
                            events |-> r.events, calls |-> route_last.calls + 1]
    /\ route_live' = route_live (-) SetToBag({a})
    /\ UNCHANGED <<dmVars, concVars, subVars, poolVars, inner, traceVars,
                   page_arena, arena_last>>

\* The requests of the caller: sizes on both sides of each level's chunk
\* size, without a resource or from for_buffer (a buffer handle, and what
\* the driver said about a dedicated allocation).
NextSystem ==
    \/ \E req \in {[Requirements(size, alignment, mtype) EXCEPT
                        !.prefers_dedicated_allocation = resource[3],
                        !.dedicated_resource_handle =
                            [kind |-> resource[1], handle |-> resource[2]]] :
                     size \in {1, 3, 7, 8}, alignment \in {1, 2},
                     mtype \in MemoryTypes,
                     resource \in {<<"None", 0, FALSE>>, <<"Buffer", 7, FALSE>>,
                                   <<"Buffer", 7, TRUE>>}},
          api_ok \in BOOLEAN :
          SystemAllocateCall(req, api_ok)
    \/ \E a \in BagToSet(route_live) : SystemFreeCall(a)

SpecSystem == InitSystem /\ [][NextSystem]_vars

-----------------------------------------------------------------------------
(* SpecFacade: a MemoryAllocator over a DeviceAllocator, its caller           *)
(* allocating and freeing buffers and images.  router holds the              *)
(* MemoryAllocator: its internal allocator and what exists on its device.    *)

\* MemoryAllocator::allocate_buffer (resource "Buffer") and allocate_image
\* (resource "Image").  fails names the step the driver lets fail: "create"
\* (vkCreateBuffer / vkCreateImage), "requirements" (no memory type fits),
\* "allocate" (vkAllocateMemory), "bind" (vkBindBufferMemory /
\* vkBindImageMemory), or "none".  size and dedicated are the driver's answer
\* to the requirements query.
MemoryAllocatorAllocate(ma, resource, size, dedicated, fails) ==
    IF fails = "create"
    THEN [status |-> "err", ma |-> ma, val |-> NoAllocation, handle |-> 0]
    ELSE CHOOSE r \in
      {IF fails = "requirements"
       THEN [status |-> "err", ma |-> [created EXCEPT !.resources = @ \ {made}],
             val |-> NoAllocation, handle |-> 0]
       ELSE CHOOSE q \in
         {IF allocation.status # "ok"
          THEN [status |-> "err",
                ma |-> [created EXCEPT !.resources = @ \ {made},
                                       !.internal_allocator = allocation.inner],
                val |-> NoAllocation, handle |-> 0]
          ELSE IF fails = "bind"
          THEN [status |-> "err",
                ma |-> [created EXCEPT !.resources = @ \ {made},
                                       !.internal_allocator = allocation.inner],
                val |-> NoAllocation, handle |-> 0]
          ELSE [status |-> "ok",
                ma |-> [created EXCEPT !.internal_allocator = allocation.inner,
                                       !.bound = @ \cup {<<made, allocation.val.id>>}],
                val |-> allocation.val, handle |-> made.handle] :
            allocation \in
              {InnerAllocate(ma.internal_allocator,
                             [Requirements(size, 1, LoneType) EXCEPT
                                 !.prefers_dedicated_allocation = dedicated,
                                 !.dedicated_resource_handle = made],
                             fails # "allocate")}} : TRUE :
         made \in {[kind |-> resource, handle |-> ma.next_handle]},
         created \in {[ma EXCEPT !.next_handle = @ + 1,
                                 !.resources = @ \cup {[kind |-> resource,
                                                        handle |-> ma.next_handle]}]}} :
      TRUE

\* MemoryAllocator::new over a DeviceAllocator; nothing exists on the device
InitFacade ==
    /\ InitDeviceMemory
    /\ debug_build \in BOOLEAN
    /\ InitSubUnused
    /\ InitPoolUnused
    /\ inner = InnerNew("fake")
    /\ InitTraceUnused
    /\ router = [kind |-> "memory_allocator",
                 internal_allocator |-> InnerNew("device"),
                 resources |-> {}, bound |-> {}, next_handle |-> 1]
    /\ route_live = EmptyBag
    /\ route_last = [op |-> "none", status |-> "ok", fails |-> "none",
                     before |-> router, calls |-> 0]
    /\ InitArenaUnused

\* allocate_buffer / allocate_image, called by the application
FacadeAllocate(resource, size, dedicated, fails) ==
    /\ router.kind = "memory_allocator"
    /\ route_last.calls < MaxRouteCalls + 1
    /\ BagCardinality(route_live) < MaxLive
    /\ \E r \in {MemoryAllocatorAllocate(router, resource, size, dedicated, fails)} :
          /\ router' = r.ma
          /\ route_live' = IF r.status = "ok"
                           THEN route_live (+) SetToBag({[kind |-> resource,
                                                          handle |-> r.handle,
                                                          allocation |-> r.val]})
                           ELSE route_live
          /\ route_last' = [op |-> "allocate", status |-> r.status, fails |-> fails,
                            before |-> router, calls |-> route_last.calls + 1]
    /\ UNCHANGED <<dmVars, concVars, subVars, poolVars, inner, traceVars,
                   page_arena, arena_last>>

\* free_buffer / free_image, of a pair the application holds
FacadeFree(held_pair) ==
    /\ router.kind = "memory_allocator"
    /\ route_last.calls < MaxRouteCalls + 1
    /\ BagIn(held_pair, route_live)
    /\ \E f \in {InnerFree(router.internal_allocator, held_pair.allocation,
                            debug_build)} :
          router' = [router EXCEPT
                       !.resources = @ \ {[kind |-> held_pair.kind,
                                            handle |-> held_pair.handle]},
                       !.bound = {b \in @ : b[2] # held_pair.allocation.id},
                       !.internal_allocator = f.inner]
    /\ route_live' = route_live (-) SetToBag({held_pair})
    /\ route_last' = [op |-> "free", status |-> "ok", fails |-> "none",
                      before |-> router, calls |-> route_last.calls + 1]
    /\ UNCHANGED <<dmVars, concVars, subVars, poolVars, inner, traceVars,
                   page_arena, arena_last>>

NextFacade ==
    \/ \E resource \in {"Buffer", "Image"}, size \in {1, 2}, dedicated \in BOOLEAN,
          fails \in {"none", "create", "requirements", "allocate", "bind"} :
          FacadeAllocate(resource, size, dedicated, fails)
    \/ \E held_pair \in BagToSet(route_live) : FacadeFree(held_pair)

SpecFacade == InitFacade /\ [][NextFacade]_vars

-----------------------------------------------------------------------------
(* Claims about DeviceMemory and Allocation::map / unmap *)

Last(s) == s[Len(s)]

\* C6: in every reachable state of a DeviceMemory, also right after a failed
\* vkMapMemory, the host pointer is non-null if and only if map_count > 0.
C6_PtrIffMapped ==
    \A c \in Cells :
        (mapped[c].host_accessible_ptr # NullPtr) <=> (mapped[c].map_count > 0)

\* C6 witness: the last call was a map whose vkMapMemory failed.
C6_Witness ==
    /\ hist # <<>>
    /\ Last(hist).op = "map"
    /\ Last(hist).api = "map"
    /\ ~Last(hist).ok

\* C7 as stated: vkMapMemory is called exactly in the calls that take
\* map_count from 0 to 1, vkUnmapMemory exactly in those that take it from 1
\* to 0, and the driver is never asked to map a mapped object.
C7_ApiExactlyOnTransition ==
    /\ ~api_misuse
    /\ \A i \in 1..Len(hist) :
          LET e == hist[i] IN
          /\ (e.api = "map") <=>
                (e.before.map_count = 0 /\ e.after.map_count = 1)
          /\ (e.api = "unmap") <=>
                (e.before.map_count = 1 /\ e.after.map_count = 0)

\* C7 amended: vkMapMemory is called exactly by the map calls that find
\* map_count = 0; map_count goes from 0 to 1 exactly when that call succeeds
\* (a failed vkMapMemory leaves it at 0); vkUnmapMemory is called exactly in
\* the calls that take map_count from 1 to 0; the driver is never asked to
\* map a mapped object.
C7_ApiOnTransitionOrFailure ==
    /\ ~api_misuse
    /\ \A i \in 1..Len(hist) :
          LET e == hist[i] IN
          /\ (e.api = "map") <=> (e.op = "map" /\ e.before.map_count = 0)
          /\ (e.api = "map" /\ e.ok) <=>
                (e.before.map_count = 0 /\ e.after.map_count = 1)
          /\ (e.api = "map" /\ ~e.ok) => e.after.map_count = 0
          /\ (e.api = "unmap") <=>
                (e.before.map_count = 1 /\ e.after.map_count = 0)

\* C7 witness: the original mapped the object, the sub-allocation mapped it
\* without an API call, and of the two unmaps only the last reached the API.
C7_Witness ==
    /\ Len(hist) >= 4
    /\ \E i \in 1..(Len(hist) - 3) :
          /\ hist[i].h = "root" /\ hist[i].op = "map" /\ hist[i].api = "map"
          /\ hist[i].ok
          /\ hist[i + 1].h = "sub" /\ hist[i + 1].op = "map"
          /\ hist[i + 1].api = "none"
          /\ hist[i + 2].h = "root" /\ hist[i + 2].op = "unmap"
          /\ hist[i + 2].api = "none"
          /\ hist[i + 3].h = "clone" /\ hist[i + 3].api = "unmap"

C9_UnmapUnmappedFails ==
    \A i \in 1..Len(hist) :
        (hist[i].op = "unmap" /\ hist[i].before.map_count = 0)
        => /\ ~hist[i].ok
           /\ hist[i].api = "none"
           /\ hist[i].after.map_count = 0
           /\ hist[i].after.host_accessible_ptr = NullPtr

\* C9 witness: an unmap of unmapped memory right after a balanced map/unmap.
C9_Witness ==
    /\ Len(hist) >= 3
    /\ hist[Len(hist) - 1].op = "unmap" /\ hist[Len(hist) - 1].ok
    /\ Last(hist).op = "unmap" /\ Last(hist).before.map_count = 0

\* C10: under every interleaving of the threads, vkMapMemory is never called
\* on a mapped object, vkUnmapMemory is never called while another thread
\* holds a map, and map_count is the number of completed maps minus the
\* number of completed unmaps.
C10_Serialized ==
    /\ ~api_misuse
    /\ ~unmap_while_held
    /\ mapped[TheCell].map_count = SumHeld(held, NumThreads)

\* C10 witness: a thread is inside unmap, holding the mutex, while another
\* thread holds a map of its own.
C10_Witness ==
    /\ pc[1] = "unmap_locked"
    /\ mutex = 1
    /\ held[1] = 1
    /\ held[2] > 0

\* The FakeAllocator after the calls of the sequence, one after the other.
RECURSIVE Replay(_, _)
Replay(calls, n) ==
    IF n = 0 THEN InnerNew("fake")
    ELSE IF calls[n].op = "allocate"
         THEN FakeAllocate(Replay(calls, n - 1), calls[n].arg).inner
         ELSE FakeFree(Replay(calls, n - 1), calls[n].arg, FALSE).inner

\* C29: of the threads calling allocate and free on the clones of one shared
\* allocator, at most one is inside a call at a time and it holds the lock;
\* whenever no call is running the allocator is what the completed calls,
\* made one after the other in the order of their return, leave.
C29_CallsAreAtomic ==
    /\ \A t, u \in Threads : (pc[t] # "idle" /\ pc[u] # "idle") => t = u
    /\ \A t \in Threads : pc[t] # "idle" => mutex = t
    /\ (\A t \in Threads : pc[t] = "idle") => inner = Replay(hist, Len(hist))

\* Both threads have made calls in turn, a free among them, and a thread is
\* inside a further call.
C29_Witness ==
    /\ Len(hist) = 3
    /\ hist[1].thread # hist[2].thread
    /\ hist[3].op = "free"
    /\ inner.allocation_count = 2
    /\ inner.active_allocations = 1
    /\ pc[hist[1].thread] = "shared_body"
    /\ shared_call[hist[1].thread].seen = inner

-----------------------------------------------------------------------------
(* Claims about the PageSuballocator *)

\* The byte ranges of two allocations share a byte.
Overlap(a, b) ==
    /\ a.offset_in_bytes < b.offset_in_bytes + b.size_in_bytes
    /\ b.offset_in_bytes < a.offset_in_bytes + a.size_in_bytes

\* C1: whenever allocate(size, alignment) returns Ok(a), a.offset_in_bytes is
\* a multiple of alignment, and the call never trips the alignment assertion
\* of Allocation::suballocate.
C1_AlignedOffset ==
    (sub_last.op = "allocate")
    => /\ (sub_last.status = "ok"
             => sub_last.val.offset_in_bytes % sub_last.alignment = 0)
       /\ ~(sub_last.status = "panic" /\ sub_last.why = "alignment")

\* C2: the byte ranges of any two live sub-allocations of one PageSuballocator
\* are disjoint.
C2_LiveDisjoint ==
    /\ \A a, b \in BagToSet(live) : a # b => ~Overlap(a, b)
    /\ \A a \in BagToSet(live) : CopiesIn(a, live) > 1 => a.size_in_bytes = 0

\* C20: free of an allocation whose device-memory handle is not the backing
\* allocation's leaves the arena, pages and allocation_count, as it was.
C20_ForeignFreeKeepsArena ==
    [][(/\ sub_last'.op = "free"
        /\ sub_last'.val.device_memory.memory
              # suballocator.allocation.device_memory.memory)
          => suballocator'.arena = suballocator.arena]_vars

\* An allocation of another device memory, lying where a live sub-allocation
\* lies, was handed to free.
C20_Witness ==
    /\ sub_last.op = "free"
    /\ sub_last.val.device_memory.memory
          # suballocator.allocation.device_memory.memory
    /\ sub_last.val.size_in_bytes >= 1
    /\ ~IsEmpty(suballocator)
    /\ \E a \in BagToSet(live) :
          a.offset_in_bytes = sub_last.val.offset_in_bytes

\* The page free computes for a sub-allocation, as an index into pages.
PageOf(a) ==
    ((a.offset_in_bytes - suballocator.allocation.offset_in_bytes)
        \div suballocator.page_size_in_bytes) + 1

\* C34: the page free computes for a sub-allocation of size >= 1 is one of
\* the pages allocate reserved for it; free of such a sub-allocation turns
\* the pages of that run, and no other page, into Free and leaves the page of
\* every other live sub-allocation of size >= 1 allocated.
C34_FreeFindsItsRun ==
    [][/\ (/\ sub_last'.op = "allocate"
           /\ sub_last'.status = "ok"
           /\ sub_last'.size >= 1)
             => /\ PageOf(sub_last'.val) \in DOMAIN suballocator.arena.pages
                /\ suballocator.arena.pages[PageOf(sub_last'.val)] = FreePage
                /\ suballocator'.arena.pages[PageOf(sub_last'.val)].allocated
       /\ (/\ sub_last'.op = "free"
           /\ sub_last'.size >= 1
           /\ sub_last'.val.device_memory.memory
                 = suballocator.allocation.device_memory.memory)
             => LET a == sub_last'.val
                    before == suballocator.arena.pages
                    after == suballocator'.arena.pages
                IN /\ sub_last'.status = "ok"
                   /\ before[PageOf(a)].allocated
                   /\ \A i \in DOMAIN before :
                         after[i] =
                            IF before[i].allocated
                               /\ before[i].first_in_chunk
                                     = before[PageOf(a)].first_in_chunk
                            THEN FreePage ELSE before[i]
                   /\ \A b \in BagToSet(live') :
                         b.size_in_bytes >= 1 => after[PageOf(b)].allocated]_vars

-----------------------------------------------------------------------------
(* Claims about the allocator of create_system_allocator (SpecSystem) *)

\* The steps of the last call that were made at one of the places of ats
LastPassed(ats) ==
    {route_last.events[i] : i \in {j \in DOMAIN route_last.events :
                                       route_last.events[j].at \in ats}}

C38_NoRequestTooLargeForItsPool ==
    /\ LastPassed({"refused"}) = {}
    /\ \A e \in LastPassed({"pool"}) :
          AlignedSize(e.req) <
              router.levels[e.level].typed_pools[e.req.memory_type_index].chunk_size
    /\ ( /\ route_last.op = "allocate"
         /\ DedicatedRoute(route_last.req) = "allocator"
         /\ AlignedSize(route_last.req) >= router.levels[3].size_trigger )
       => /\ LastPassed({"pool", "chunk"}) = {}
          /\ Cardinality({i \in DOMAIN route_last.events :
                             route_last.events[i].at = "device"}) = 1
          /\ \A e \in LastPassed({"device"}) : e.req = route_last.req
          /\ router.device.driver_call.allocation_size
                = route_last.req.size_in_bytes
          /\ route_last.status = "ok"
               => route_last.val.size_in_bytes = route_last.req.size_in_bytes

\* A request of the root chunk size was served by the device, while a chunk
\* of every level is in use
C38_Witness ==
    /\ route_last.op = "allocate"
    /\ route_last.status = "ok"
    /\ DedicatedRoute(route_last.req) = "allocator"
    /\ AlignedSize(route_last.req) >= router.levels[3].size_trigger
    /\ \A n \in 1..3 : \E t \in MemoryTypes :
          DOMAIN router.levels[n].typed_pools[t].pool # {}

\* C40: a vkAllocateMemory that makes a pool chunk carries a dedicated
\* allocate info that names no buffer and no image, also when the request
\* that caused the chunk came from for_buffer or for_image; a resource
\* handle reaches vkAllocateMemory only with a request that took the
\* dedicated path.
C40_ChunksNameNoResource ==
    ( /\ route_last.op = "allocate"
      /\ LastPassed({"device"}) # {} )
    => /\ LastPassed({"chunk"}) # {}
          => router.device.driver_call.p_next = [buffer |-> 0, image |-> 0]
       /\ router.device.driver_call.p_next # [buffer |-> 0, image |-> 0]
          => DedicatedRoute(route_last.req) = "device_allocator"

-----------------------------------------------------------------------------
(* Claims about MemoryAllocator (SpecFacade) *)

\* C39: when allocate_buffer or allocate_image returns an error, whichever
\* step failed, the buffer or image it created is destroyed and the internal
\* allocator has the live allocations it had before the call.
C39_ErrorLeavesNothingBehind ==
    (route_last.op = "allocate" /\ route_last.status = "err")
    => /\ router.resources = route_last.before.resources
       /\ router.internal_allocator.outstanding
            = route_last.before.internal_allocator.outstanding

-----------------------------------------------------------------------------
(* Claims about the PageArena *)

\* C17: in every state of a PageArena, is_empty() holds exactly when
\* allocation_count is 0, and that exactly when every page is Free.
C17_EmptyIffNoPages ==
    /\ ArenaIsEmpty(page_arena) <=> page_arena.allocation_count = 0
    /\ page_arena.allocation_count = 0
          <=> \A i \in DOMAIN page_arena.pages : page_arena.pages[i] = FreePage

\* The one chunk left in the arena, allocated some calls ago, was freed.
C17_Witness ==
    /\ arena_last.op = "free_chunk"
    /\ arena_last.kind = "ok"
    /\ arena_last.before.allocation_count = 1
    /\ ~arena_last.undoes
    /\ ArenaIsEmpty(page_arena)

\* C18: in every state of a PageArena, a page Allocated{k} lies in a run of
\* pages Allocated{k} that starts at page k, and allocation_count is the
\* number of k with pages[k] = Allocated{k}.
C18_RunsAreWellFormed ==
    /\ \A i \in DOMAIN page_arena.pages :
          page_arena.pages[i].allocated
            => LET k == page_arena.pages[i].first_in_chunk IN
               /\ k + 1 <= i
               /\ \A m \in (k + 1)..i : page_arena.pages[m] = AllocatedPage(k)
    /\ page_arena.allocation_count =
          Cardinality({k \in 0..(Len(page_arena.pages) - 1) :
                          page_arena.pages[k + 1] = AllocatedPage(k)})

\* A chunk was freed through a page that is not its first, between two
\* chunks that stay allocated.
C18_Witness ==
    /\ arena_last.op = "free_chunk"
    /\ arena_last.kind = "ok"
    /\ arena_last.before.pages[arena_last.index + 1].first_in_chunk
          < arena_last.index
    /\ page_arena.pages[1].allocated
    /\ page_arena.pages[Len(page_arena.pages)].allocated
    /\ page_arena.allocation_count = 2

\* C19: when allocate_chunk(n), n >= 1, returned Some(i), free_chunk(j) with
\* j in i..i+n-1 puts pages and allocation_count back to what they were
\* before the allocate_chunk call.
C19_AllocateThenFreeRestores ==
    (arena_last.op = "free_chunk" /\ arena_last.undoes)
        => /\ arena_last.kind = "ok"
           /\ page_arena = arena_last.origin

\* A chunk of two pages was allocated into the gap between two chunks and
\* freed through its second page.
C19_Witness ==
    /\ arena_last.op = "free_chunk"
    /\ arena_last.undoes
    /\ arena_last.index = 2
    /\ page_arena.pages[1].allocated
    /\ page_arena.pages[2] = FreePage
    /\ page_arena.pages[3] = FreePage
    /\ page_arena.pages[4].allocated

\* The loop of find_first_free_chunk taken page by page from page index on,
\* for page_count >= 1: Some(start) as a one-element set, None as the empty
\* set.
RECURSIVE ScanFrom(_, _, _, _, _)
ScanFrom(pages, page_count, index, in_region, start) ==
    IF index >= Len(pages) THEN {}
    ELSE IF pages[index + 1] = FreePage
         THEN IF index - (IF in_region THEN start ELSE index) = page_count - 1
              THEN {IF in_region THEN start ELSE index}
              ELSE ScanFrom(pages, page_count, index + 1, TRUE,
                            IF in_region THEN start ELSE index)
         ELSE ScanFrom(pages, page_count, index + 1, FALSE, 0)

\* C32: allocate_chunk(n), n >= 1, returns Some(i) with i the lowest page at
\* which n Free pages begin, turns exactly the pages i..i+n-1 into
\* Allocated{i} and adds 1 to allocation_count; it returns None exactly when
\* no n Free pages lie side by side, and then pages and allocation_count are
\* as they were.  The page-by-page loop gives the same answer.
C32_FirstFit ==
    (arena_last.op = "allocate_chunk" /\ arena_last.arg >= 1)
        => LET n == arena_last.arg
               before == arena_last.before
               runs == {s \in 0..(Len(before.pages) - n) :
                           \A i \in (s + 1)..(s + n) : before.pages[i] = FreePage}
           IN /\ IF runs = {}
                 THEN /\ arena_last.kind = "none"
                      /\ page_arena = before
                 ELSE /\ arena_last.kind = "some"
                      /\ arena_last.index \in runs
                      /\ \A s \in runs : arena_last.index <= s
                      /\ Len(page_arena.pages) = Len(before.pages)
                      /\ \A i \in DOMAIN before.pages :
                            page_arena.pages[i] =
                               IF i - 1 >= arena_last.index
                                  /\ i - 1 < arena_last.index + n
                               THEN AllocatedPage(arena_last.index)
                               ELSE before.pages[i]
                      /\ page_arena.allocation_count = before.allocation_count + 1
              /\ ScanFrom(before.pages, n, 0, FALSE, 0) =
                    IF arena_last.kind = "some" THEN {arena_last.index} ELSE {}

\* One page was allocated at page 1, between two chunks, with page 3 Free
\* as well.
C32_Witness ==
    /\ arena_last.op = "allocate_chunk"
    /\ arena_last.kind = "some"
    /\ arena_last.arg = 1
    /\ arena_last.index = 1
    /\ arena_last.before.pages[1].allocated
    /\ arena_last.before.pages[3].allocated
    /\ arena_last.before.pages[4] = FreePage

\* C33: free_chunk(j) with page j in the allocated run whose first page is k
\* turns the pages that carry Allocated{k} into Free, leaves every other
\* page as it was, a run that begins right after it included, and takes 1
\* from allocation_count.
C33_FreesItsRunOnly ==
    (/\ arena_last.op = "free_chunk"
     /\ arena_last.index < Len(arena_last.before.pages)
     /\ arena_last.before.pages[arena_last.index + 1].allocated)
        => LET before == arena_last.before
               k == before.pages[arena_last.index + 1].first_in_chunk
           IN /\ arena_last.kind = "ok"
              /\ Len(page_arena.pages) = Len(before.pages)
              /\ \A i \in DOMAIN before.pages :
                    page_arena.pages[i] = IF before.pages[i] = AllocatedPage(k)
                                          THEN FreePage ELSE before.pages[i]
              /\ page_arena.allocation_count = before.allocation_count - 1

\* The chunk of pages 0 and 1 was freed through page 1; the chunk that begins
\* at page 2 stays.
C33_Witness ==
    /\ arena_last.op = "free_chunk"
    /\ arena_last.kind = "ok"
    /\ arena_last.index = 1
    /\ arena_last.before.pages[2] = AllocatedPage(0)
    /\ arena_last.before.pages[3] = AllocatedPage(2)
    /\ page_arena.pages[1] = FreePage
    /\ page_arena.pages[2] = FreePage
    /\ page_arena.pages[3] = AllocatedPage(2)
    /\ page_arena.allocation_count = 1

-----------------------------------------------------------------------------
(* Claims about the pools *)

PoolsAreEmpty == \A t \in DOMAIN typed_pools : DOMAIN typed_pools[t].pool = {}

\* C3: once every allocation the pool returned has been freed, every pool's
\* chunk map is empty and the terminal allocator has no active allocation.
C3_Balanced ==
    (PoolRunning /\ pool_live = EmptyBag)
        => /\ PoolsAreEmpty
           /\ inner.active_allocations = 0
           /\ inner.outstanding = {}

\* C4: an allocate call that returns an error leaves the chunk maps, every
\* chunk's pages and allocation_count, and the inner allocator's live
\* allocations as they were; a chunk created by the call has gone back.
C4_FailedAllocateChangesNothing ==
    [][(pool_last'.op = "allocate" /\ pool_last'.status = "err")
          => /\ typed_pools' = typed_pools
             /\ inner'.outstanding = inner.outstanding
             /\ inner'.active_allocations = inner.active_allocations]_vars

\* A failed request that had a chunk created and rolled back, next to chunks
\* that are in use.
C4_Witness ==
    /\ pool_last.op = "allocate"
    /\ pool_last.status = "err"
    /\ pool_last.why.text = "rollback"
    /\ pool_last.chunk_requested
    /\ ~PoolsAreEmpty
    /\ inner.allocation_count > inner.active_allocations

\* The pool that the last request was handed to, and whether the request
\* carried that pool's memory type.
ServingPool ==
    typed_pools[IF front = "pool" THEN pool_last.req.memory_type_index
                ELSE LoneType]

OfPoolsType == pool_last.req.memory_type_index = ServingPool.memory_type_index

\* C11: a request of the pool's memory type whose aligned_size() is at least
\* chunk_size (equality included) gets the error "Unable to allocate a chunk
\* of memory with N bytes", N the request's size_in_bytes, and the inner
\* allocator is not asked for a chunk; a request of the pool's memory type
\* whose aligned_size() is chunk_size - 1 succeeds unless the inner allocator
\* refused the chunk.
C11_OversizeBoundary ==
    (pool_last.op = "allocate" /\ OfPoolsType)
        => /\ AlignedSize(pool_last.req) >= ServingPool.chunk_size
                => /\ pool_last.status = "err"
                   /\ pool_last.why.text =
                          "Unable to allocate a chunk of memory with {} bytes"
                   /\ pool_last.why.bytes = pool_last.req.size_in_bytes
                   /\ ~pool_last.chunk_requested
           /\ AlignedSize(pool_last.req) = ServingPool.chunk_size - 1
                => \/ pool_last.status = "ok"
                   \/ pool_last.why.text = "inner allocator"

\* C12: a request whose memory_type_index is not the pool's gets the error
\* "Memory type index mismatch" whatever its size and alignment; the inner
\* allocator is asked for nothing and the pool is as it was.
C12_TypeMismatch ==
    [][(pool_last'.op = "allocate" /\ front = "typed"
        /\ pool_last'.req.memory_type_index # typed_pools[LoneType].memory_type_index)
          => /\ pool_last'.status = "err"
             /\ pool_last'.why.text = "Memory type index mismatch"
             /\ ~pool_last'.chunk_requested
             /\ inner' = inner
             /\ typed_pools' = typed_pools]_vars

\* A request of another memory type, small enough to fit, was refused by a
\* pool that holds a chunk with room for it.
C12_Witness ==
    /\ pool_last.op = "allocate"
    /\ front = "typed"
    /\ ~OfPoolsType
    /\ pool_last.status = "err"
    /\ pool_last.why.text = "Memory type index mismatch"
    /\ pool_last.req.size_in_bytes = 1
    /\ pool_last.req.alignment = 1
    /\ \E id \in DOMAIN typed_pools[LoneType].pool :
          \E i \in DOMAIN typed_pools[LoneType].pool[id].arena.pages :
              typed_pools[LoneType].pool[id].arena.pages[i] = FreePage

\* C30: an allocate call asks the inner allocator for a chunk only when no
\* chunk of the pool serves the request, and for one chunk at most; the chunk
\* is requested with the requirements of the request, size_in_bytes replaced
\* by chunk_size and alignment by 1.  A call that asks for no chunk leaves
\* the inner allocator as it was.
C30_ChunkOnlyWhenNeeded ==
    [][(pool_last'.op = "allocate")
          => LET req == pool_last'.req
                 p == typed_pools[IF front = "pool" THEN req.memory_type_index
                                  ELSE LoneType]
                 chunk_req == [req EXCEPT !.size_in_bytes = p.chunk_size,
                                          !.alignment = 1]
             IN IF pool_last'.chunk_requested
                THEN /\ \A k \in DOMAIN p.pool :
                          PSAllocate(p.pool[k], req.size_in_bytes, req.alignment,
                                     debug_build).status = "err"
                     /\ inner'.allocation_count <= inner.allocation_count + 1
                     /\ inner.kind = "fake"
                          => inner'.allocations = Append(inner.allocations, chunk_req)
                     /\ \A k \in DOMAIN typed_pools'[p.memory_type_index].pool
                                    \ DOMAIN p.pool :
                          typed_pools'[p.memory_type_index].pool[k]
                              .allocation.allocation_requirements = chunk_req
                ELSE inner' = inner]_vars

\* A request with alignment 4 had a second chunk opened, next to a chunk in
\* use that could not serve it.
C30_Witness ==
    /\ pool_last.op = "allocate"
    /\ pool_last.status = "ok"
    /\ pool_last.chunk_requested
    /\ pool_last.req.alignment = 4
    /\ Cardinality(DOMAIN ServingPool.pool) = 2
    /\ inner.kind = "fake"
    /\ Len(inner.allocations) = 2
    /\ inner.allocations[2].alignment = 1
    /\ inner.allocations[2].size_in_bytes = ServingPool.chunk_size

\* The chunks the pools hold, by id.
ChunkIds(pools) == UNION {DOMAIN pools[t].pool : t \in DOMAIN pools}

\* C31: no chunk a pool holds is empty; a free that leaves no live
\* sub-allocation of a chunk takes the chunk out of the pool and frees it to
\* the inner allocator once in that call, any other free leaves the chunk in
\* the pool and the inner allocator as it was; an allocate that follows the
\* free of the last live allocation asks the inner allocator for a chunk.
C31_NoEmptyChunkIsKept ==
    [][/\ PoolRunning' =>
              \A t \in DOMAIN typed_pools' : \A k \in DOMAIN typed_pools'[t].pool :
                  ~IsEmpty(typed_pools'[t].pool[k])
       /\ (pool_last'.op = "free" /\ pool_last'.status = "ok")
             => \A a \in BagToSet(pool_live (-) pool_live') :
                   IF \E b \in BagToSet(pool_live') : b.parent_id = a.parent_id
                   THEN /\ a.parent_id \in ChunkIds(typed_pools')
                        /\ inner' = inner
                   ELSE /\ a.parent_id \notin ChunkIds(typed_pools')
                        /\ inner'.active_allocations = inner.active_allocations - 1
                        /\ inner'.outstanding # inner.outstanding
       /\ (pool_last.op = "free" /\ pool_live = EmptyBag
           /\ pool_last'.op = "allocate" /\ pool_last'.status = "ok")
             => pool_last'.chunk_requested]_vars

\* C36: an allocate call that got a new chunk from the inner allocator
\* serves the request from it: the allocation on the new suballocator does
\* not fail, and the chunk is not handed back.
C36_NewChunkServes ==
    (pool_last.op = "allocate" /\ pool_last.chunk_requested)
        => \/ pool_last.status = "ok"
           \/ pool_last.status = "err" /\ pool_last.why.text = "inner allocator"

\* C27: behind a DedicatedAllocator whose device_allocator is a
\* DeviceAllocator, a request with requires_dedicated_allocation goes to the
\* device allocator: vkAllocateMemory is called with the request's size and
\* memory type and a dedicated-allocate info that names the request's
\* resource, the other allocator (its pools and what they draw from) is as it
\* was, and the free of the allocation takes one memory object from the
\* device and leaves the other allocator as it was.
C27_DedicatedShortCircuit ==
    [][(/\ router.kind = "dedicated"
        /\ router.device_allocator.inner.kind = "device"
        /\ route_last'.calls # route_last.calls
        /\ route_last'.req.requires_dedicated_allocation)
          => /\ route_last'.to = "device_allocator"
             /\ router'.allocator = router.allocator
             /\ route_last'.op = "allocate"
                  => /\ router'.device_allocator.inner.driver_call
                          = [call |-> "vkAllocateMemory",
                             p_next |->
                                 [buffer |-> 0,
                                  image |->
                                      route_last'.req.dedicated_resource_handle.handle],
                             allocation_size |-> route_last'.req.size_in_bytes,
                             memory_type_index |->
                                 route_last'.req.memory_type_index]
                     /\ route_last'.status = "ok"
                          => router'.device_allocator.inner.active_allocations
                               = router.device_allocator.inner.active_allocations + 1
             /\ route_last'.op = "free"
                  => /\ router'.device_allocator.inner.active_allocations
                          = router.device_allocator.inner.active_allocations - 1
                     /\ router'.device_allocator.inner.outstanding
                          = router.device_allocator.inner.outstanding
                              \ {route_last'.val.id}
                     /\ router'.device_allocator.inner.driver_call
                          = router.device_allocator.inner.driver_call]_vars

\* The dedicated allocation of an image was made and freed while the pools
\* of the other allocator served an allocation.
C27_Witness ==
    /\ router.kind = "dedicated"
    /\ router.allocator.kind = "pool"
    /\ router.device_allocator.inner.kind = "device"
    /\ route_last.op = "free"
    /\ route_last.req.requires_dedicated_allocation
    /\ route_last.req.dedicated_resource_handle = [kind |-> "Image", handle |-> 7]
    /\ router.device_allocator.inner.driver_call.p_next.image = 7
    /\ router.device_allocator.inner.active_allocations = 0
    /\ router.device_allocator.inner.allocation_count = 1
    /\ \E a \in BagToSet(route_live) : a.served_by = "allocator"
    /\ router.allocator.inner.active_allocations = 1

-----------------------------------------------------------------------------
(* Claims about the allocators of the tests *)

\* The test has made the calls allocate(reqs[1]), allocate(reqs[2]), .. in
\* this order and then frees calls of free, and nothing else.
TestMade(reqs, frees) ==
    /\ Len(hist) = Len(reqs) + frees
    /\ \A i \in 1..Len(reqs) : hist[i].op = "allocate" /\ hist[i].req = reqs[i]
    /\ \A i \in (Len(reqs) + 1)..Len(hist) : hist[i].op = "free"

Small == Requirements(64, 2, 0)
Big == Requirements(416, 32, 0)
ChunkOf512 == Requirements(512, 1, 0)

\* The chunk has n Free pages in a row.
HasFreeRun(ps, n) ==
    \E s \in 0..(Len(ps.arena.pages) - n) :
        \A i \in (s + 1)..(s + n) : ps.arena.pages[i] = FreePage

\* C21, as stated: the three allocations 64/2, 64/2, 416/32 use one chunk, a
\* fourth 64/2 forces the second; after freeing all four the fake has no
\* active allocation and has recorded two chunk requests of 512 bytes,
\* alignment 1.
C21_OneChunkForThree ==
    front = "typed"
      => /\ TestMade(<<Small, Small, Big>>, 0) => Len(inner.allocations) = 1
         /\ TestMade(<<Small, Small, Big, Small>>, 0) => Len(inner.allocations) = 2
         /\ TestMade(<<Small, Small, Big, Small>>, 4)
              => /\ inner.active_allocations = 0
                 /\ inner.allocations = <<ChunkOf512, ChunkOf512>>

\* C21, amended: the three allocations use two chunks (416/32 needs 56 pages
\* and the first chunk has 48 left), the fourth 64/2 is served from a chunk
\* that exists; after freeing all four the fake has no active allocation and
\* has recorded two chunk requests of 512 bytes, alignment 1.
C21_TwoChunksForThree ==
    front = "typed"
      => /\ TestMade(<<Small, Small, Big>>, 0)
              => /\ Len(inner.allocations) = 2
                 /\ inner.active_allocations = 2
         /\ TestMade(<<Small, Small, Big, Small>>, 0)
              => /\ hist[4].status = "ok"
                 /\ ~pool_last.chunk_requested
                 /\ Len(inner.allocations) = 2
                 /\ inner.active_allocations = 2
         /\ TestMade(<<Small, Small, Big, Small>>, 4)
              => /\ inner.active_allocations = 0
                 /\ inner.allocations = <<ChunkOf512, ChunkOf512>>

\* All four allocations were made and freed.
C21_Witness ==
    /\ front = "typed"
    /\ TestMade(<<Small, Small, Big, Small>>, 4)
    /\ \A i \in 1..8 : hist[i].status = "ok"
    /\ inner.active_allocations = 0
    /\ Len(inner.allocations) = 2
    /\ PoolsAreEmpty

\* C22: the request 416/32, which takes the alignment-correction path in
\* every chunk, is served from a chunk that exists exactly when one has
\* ceil((416 + 32 - 1) / 8) = 56 Free pages in a row, and has a chunk opened
\* otherwise; after 64/2, 64/2, 416/32 the FakeAllocator has 2 active
\* allocations and has recorded two requests of 512 bytes, alignment 1;
\* after the three are freed it has 0 active allocations.
C22_PaddedRunOrNewChunk ==
    [][front = "typed"
         => /\ (pool_last'.op = "allocate" /\ pool_last'.req = Big)
                 => /\ pool_last'.status = "ok"
                    /\ pool_last'.chunk_requested
                         <=> ~\E k \in DOMAIN typed_pools[LoneType].pool :
                                 HasFreeRun(typed_pools[LoneType].pool[k],
                                            (416 + 32 - 1 + 8 - 1) \div 8)
            /\ TestMade(<<Small, Small, Big>>, 0)'
                 => /\ inner'.active_allocations = 2
                    /\ inner'.allocations = <<ChunkOf512, ChunkOf512>>
            /\ TestMade(<<Small, Small, Big>>, 3)'
                 => inner'.active_allocations = 0]_vars

\* The three allocations of the test were made, the third into a second
\* chunk, and freed.
C22_Witness ==
    /\ front = "typed"
    /\ TestMade(<<Small, Small, Big>>, 3)
    /\ hist[3].status = "ok"
    /\ hist[3].val.offset_in_bytes = 512
    /\ inner.active_allocations = 0
    /\ inner.allocations = <<ChunkOf512, ChunkOf512>>

\* C23: over 100 pages of 4 bytes at offset 0 the requests of 80, 240 and 68
\* bytes, alignment 4, are placed at byte offsets 0, 80 and 320; after them
\* a request of 12 bytes succeeds and a request of 16 bytes fails.
C23_Layout ==
    (front = "suballocator" /\ Len(hist) >= 3
     /\ hist[1].req = Requirements(80, 4, 0)
     /\ hist[2].req = Requirements(240, 4, 0)
     /\ hist[3].req = Requirements(68, 4, 0))
      => /\ \A i \in 1..3 : /\ hist[i].status = "ok"
                            /\ hist[i].val.size_in_bytes = hist[i].req.size_in_bytes
         /\ hist[1].val.offset_in_bytes = 0
         /\ hist[2].val.offset_in_bytes = 80
         /\ hist[3].val.offset_in_bytes = 320
         /\ \A i \in 4..Len(hist) :
               /\ hist[i].req.size_in_bytes = 16 => hist[i].status = "err"
               /\ hist[i].req.size_in_bytes = 12
                    => /\ hist[i].status = "ok"
                       /\ hist[i].val.offset_in_bytes = 388

\* The three requests, then 12 bytes served from the last three pages and
\* 16 bytes refused.
C23_Witness ==
    /\ front = "suballocator"
    /\ TestMade(<<Requirements(80, 4, 0), Requirements(240, 4, 0),
                  Requirements(68, 4, 0), Requirements(12, 4, 0),
                  Requirements(16, 4, 0)>>, 0)
    /\ hist[4].status = "ok"
    /\ hist[5].status = "err"
    /\ suballocator.arena.allocation_count = 4

\* C35: when (backing offset + page_size) % alignment is not 0, allocate
\* reserves the first run of ceil((size + alignment - 1) / page_size) Free
\* pages and returns the least multiple of alignment that is not below the
\* offset of the run, with the size requested; without such a run it returns
\* an error and changes nothing.  Over 400 pages of 1 byte at offset 0 the
\* requests of 80, 240 and 68 bytes, alignment 4, are placed at offsets 0, 84
\* and 328, a request of 10 bytes after them fails, and once the allocations
\* are freed is_empty() holds.
C35_PaddedFirstFit ==
    [][/\ (/\ sub_last'.op = "allocate"
           /\ ~PageBoundariesAligned(suballocator, sub_last'.alignment))
             => LET before == suballocator.arena.pages
                    after == suballocator'.arena.pages
                    n == DivCeil(sub_last'.size + sub_last'.alignment - 1,
                                 suballocator.page_size_in_bytes)
                    runs == {k \in 0..(Len(before) - n) :
                                \A i \in (k + 1)..(k + n) : before[i] = FreePage}
                IN IF runs = {}
                   THEN /\ sub_last'.status = "err"
                        /\ suballocator' = suballocator
                   ELSE \E k \in runs :
                          /\ \A m \in runs : k <= m
                          /\ sub_last'.status = "ok"
                          /\ \A i \in DOMAIN before :
                                after[i] = IF i - 1 >= k /\ i - 1 < k + n
                                           THEN AllocatedPage(k) ELSE before[i]
                          /\ \E start \in
                                {suballocator.allocation.offset_in_bytes
                                   + k * suballocator.page_size_in_bytes} :
                                /\ sub_last'.val.offset_in_bytes % sub_last'.alignment = 0
                                /\ sub_last'.val.offset_in_bytes >= start
                                /\ sub_last'.val.offset_in_bytes
                                      < start + sub_last'.alignment
                          /\ sub_last'.val.size_in_bytes = sub_last'.size
       /\ (/\ front = "bytes"
           /\ Len(hist') >= 3
           /\ hist'[1].req = Requirements(80, 4, 0)
           /\ hist'[2].req = Requirements(240, 4, 0)
           /\ hist'[3].req = Requirements(68, 4, 0))
             => /\ \A i \in 1..3 : hist'[i].status = "ok"
                /\ hist'[1].val.offset_in_bytes = 0
                /\ hist'[2].val.offset_in_bytes = 84
                /\ hist'[3].val.offset_in_bytes = 328
                /\ Len(hist') >= 4 => /\ hist'[4].req = Requirements(10, 4, 0)
                                      /\ hist'[4].status = "err"
       /\ (front = "bytes" /\ live' = EmptyBag) => IsEmpty(suballocator')]_vars

\* The three requests, the request of 10 bytes refused, and the three
\* allocations freed.
C35_Witness ==
    /\ front = "bytes"
    /\ TestMade(<<Requirements(80, 4, 0), Requirements(240, 4, 0),
                  Requirements(68, 4, 0), Requirements(10, 4, 0)>>, 3)
    /\ hist[2].val.offset_in_bytes = 84
    /\ hist[4].status = "err"
    /\ live = EmptyBag
    /\ IsEmpty(suballocator)

\* C28: a call on the PoolAllocator changes only the pool of the memory type
\* of the request (of the allocation freed); every chunk of a pool and every
\* allocation served from it has the pool's memory type, so no chunk holds
\* allocations of two types.  With chunk size 64 and page size 1: two
\* 32-byte requests of type 0 use one chunk, a 32-byte request of type 1
\* opens a second; after freeing the three the inner allocator has both
\* chunks back.
C28_ServedByOwnType ==
    [][front = "pool"
         => /\ \A t \in MemoryTypes :
                 /\ t # pool_last'.req.memory_type_index
                      => typed_pools'[t] = typed_pools[t]
                 /\ \A k \in DOMAIN typed_pools'[t].pool :
                      typed_pools'[t].pool[k].allocation.memory_type_index = t
            /\ \A a \in BagToSet(pool_live') :
                 /\ a.parent_id \in DOMAIN typed_pools'[a.memory_type_index].pool
                 /\ \A t \in MemoryTypes \ {a.memory_type_index} :
                      a.parent_id \notin DOMAIN typed_pools'[t].pool
            /\ TestMade(<<Requirements(32, 1, 0), Requirements(32, 1, 0)>>, 0)'
                 => inner'.active_allocations = 1
            /\ TestMade(<<Requirements(32, 1, 0), Requirements(32, 1, 0),
                          Requirements(32, 1, 1)>>, 0)'
                 => /\ pool_last'.status = "ok"
                    /\ pool_last'.chunk_requested
                    /\ inner'.active_allocations = 2
                    /\ inner'.allocations
                         = <<Requirements(64, 1, 0), Requirements(64, 1, 1)>>
            /\ TestMade(<<Requirements(32, 1, 0), Requirements(32, 1, 0),
                          Requirements(32, 1, 1)>>, 3)'
                 => /\ inner'.active_allocations = 0
                    /\ inner'.outstanding = {}]_vars

\* Both chunks are in use: two allocations of type 0 in one, one of type 1
\* in the other.
C28_Witness ==
    /\ front = "pool"
    /\ TestMade(<<Requirements(32, 1, 0), Requirements(32, 1, 0),
                  Requirements(32, 1, 1)>>, 0)
    /\ BagCardinality(pool_live) = 3
    /\ Cardinality(DOMAIN typed_pools[0].pool) = 1
    /\ Cardinality(DOMAIN typed_pools[1].pool) = 1
    /\ inner.active_allocations = 2

-----------------------------------------------------------------------------
(* Claims about the SizedAllocator and the DedicatedAllocator *)

\* C13: free(a) of an allocation the routing allocator returned is delivered
\* to the allocator that served the allocate, also when that allocator is a
\* pool whose sub-allocations carry requirements rebuilt by suballocate.
C13_FreeFollowsAllocate ==
    route_last.op = "free" => route_last.to = route_last.served_by

\* C14: SizedAllocator::allocate calls the small allocator exactly when
\* aligned_size() < size_trigger and the large allocator otherwise (equality
\* included); the allocator that was not called is as it was, and an Ok leaves
\* its mark on the one that was.  With trigger 64, size 32 alignment 8 goes
\* to the small allocator and size 62 alignment 8 to the large one.
C14_SizedRouting ==
    [][(route_last'.op = "allocate" /\ router.kind = "sized")
          => /\ route_last'.to = IF AlignedSize(route_last'.req) < router.size_trigger
                                 THEN "small_allocator" ELSE "large_allocator"
             /\ \A side \in Sides \ {route_last'.to} : router'[side] = router[side]
             /\ route_last'.status = "ok"
                   => router'[route_last'.to] # router[route_last'.to]
             /\ SizedRoute(64, Requirements(32, 8, 0)) = "small_allocator"
             /\ SizedRoute(64, Requirements(62, 8, 0)) = "large_allocator"]_vars

\* A request whose aligned_size() equals the trigger was served by the large
\* allocator while the small allocator held an allocation.
C14_Witness ==
    /\ router.kind = "sized"
    /\ route_last.op = "allocate"
    /\ route_last.status = "ok"
    /\ AlignedSize(route_last.req) = router.size_trigger
    /\ route_last.to = "large_allocator"
    /\ router.small_allocator.inner.active_allocations = 1
    /\ router.large_allocator.inner.active_allocations = 1

\* C15: DedicatedAllocator::allocate calls the device allocator exactly when
\* the request prefers or requires a dedicated allocation and the general
\* allocator otherwise; the allocator that was not called, its count of
\* active allocations included, is as it was.
C15_DedicatedRouting ==
    [][(route_last'.op = "allocate" /\ router.kind = "dedicated")
          => /\ route_last'.to =
                    IF \/ route_last'.req.prefers_dedicated_allocation
                       \/ route_last'.req.requires_dedicated_allocation
                    THEN "device_allocator" ELSE "allocator"
             /\ \A side \in Sides \ {route_last'.to} : router'[side] = router[side]
             /\ route_last'.status = "ok"
                   => router'[route_last'.to] # router[route_last'.to]]_vars

\* A request that only prefers a dedicated allocation was served by the
\* device allocator while the general allocator held an allocation.
C15_Witness ==
    /\ router.kind = "dedicated"
    /\ route_last.op = "allocate"
    /\ route_last.status = "ok"
    /\ route_last.req.prefers_dedicated_allocation
    /\ ~route_last.req.requires_dedicated_allocation
    /\ route_last.to = "device_allocator"
    /\ router.device_allocator.inner.active_allocations = 1
    /\ router.allocator.inner.active_allocations = 1

\* C16: an allocation returned as Ok by a pool, a SizedAllocator or a
\* DedicatedAllocator has the size_in_bytes of the request, not the padded
\* size, and the memory_type_index of the request.
C16_SizeAndTypeAsRequested ==
    (route_last.op = "allocate" /\ route_last.status = "ok")
        => /\ route_last.val.size_in_bytes = route_last.req.size_in_bytes
           /\ route_last.val.memory_type_index = route_last.req.memory_type_index

\* A pool under a SizedAllocator served a request of memory type 1 through
\* the alignment-correction path, which reserves size + alignment - 1 bytes.
C16_Witness ==
    /\ router.kind = "sized"
    /\ route_last.op = "allocate"
    /\ route_last.status = "ok"
    /\ router[route_last.to].kind = "pool"
    /\ route_last.req.alignment = 4
    /\ route_last.req.memory_type_index = 1
    /\ route_last.val.parent_id # NoParent
    /\ route_last.val.size_in_bytes = 1

-----------------------------------------------------------------------------
(* Claims about the TraceAllocator *)

\* The allocate calls made so far for memory type t (all of them: t = -1)
AllocsOf(t) ==
    {i \in DOMAIN trace_last.allocs :
        t = -1 \/ trace_last.allocs[i].memory_type_index = t}

\* The free calls made so far for memory type t (all of them: t = -1)
FreesOf(t) ==
    IF t = -1 THEN BagCardinality(trace_last.frees)
    ELSE CopiesIn(t, trace_last.frees)

\* The Metrics that cover memory type t (the total: t = -1)
MetricsOf(t) ==
    IF t = -1 THEN trace.total ELSE EntryOrDefault(trace.per_type, t)

\* C24: total_allocations is the number of allocate calls and
\* leaked_allocations the number of allocate calls minus the number of free
\* calls, in total and for each memory type; once every allocation returned
\* has been freed, leaked_allocations is 0.
C24_CountsFollowCalls ==
    TraceRunning
      => /\ \A t \in {-1} \cup MemoryTypes :
              /\ MetricsOf(t).total_allocations = Cardinality(AllocsOf(t))
              /\ MetricsOf(t).leaked_allocations
                    = Cardinality(AllocsOf(t)) - FreesOf(t)
         /\ (trace_live = EmptyBag) => trace.total.leaked_allocations = 0

\* C25: after at least one allocate call, max_size is the largest and
\* min_size the smallest size_in_bytes requested so far.
C25_MinMaxOfRequests ==
    (TraceRunning /\ trace_last.allocs # <<>>)
      => LET sizes == {trace_last.allocs[i].size_in_bytes :
                          i \in DOMAIN trace_last.allocs}
         IN /\ trace.total.max_size \in sizes
            /\ \A x \in sizes : x <= trace.total.max_size
            /\ trace.total.min_size \in sizes
            /\ \A x \in sizes : x >= trace.total.min_size

\* C26: after n >= 1 allocate calls that all request the same size s,
\* avg_size is s.
C26_AvgOfEqualSizes ==
    (/\ TraceRunning
     /\ trace_last.allocs # <<>>
     /\ \A i \in DOMAIN trace_last.allocs :
           trace_last.allocs[i].size_in_bytes = trace_last.allocs[1].size_in_bytes)
      => trace.total.avg_size = trace_last.allocs[1].size_in_bytes

\* C5: an allocate call whose wrapped allocator returns an error leaves the
\* metrics, total and per memory type, as they were.
C5_FailedAllocateKeepsMetrics ==
    [][(trace_last'.op = "allocate" /\ trace_last'.status = "err")
          => trace' = trace]_vars

=============================================================================
